---- MODULE Spec2Model ----
(***************************************************************************)
(* A model of CodeSync's code-execution and test-validation engine:        *)
(* SandboxEngine, TestRunner, TestCaseParser, MultiLanguageEngine and the  *)
(* CodeRunner facade.                                                      *)
(*                                                                         *)
(* JavaScript values are tagged records with the same five fields for      *)
(* every kind, so that any two of them can be compared:                    *)
(*   t  the kind, n  the payload of a number (of a boolean: 1 or 0),       *)
(*   s  the payload of a string, e  the elements of an array or the        *)
(*   property values of an object, k  the property names of an object in   *)
(*   insertion order.                                                      *)
(* Numbers are small naturals; NaN and the infinities are not values of    *)
(* the model (they do not survive JSON and no parser of the repository     *)
(* produces them).                                                         *)
(***************************************************************************)
EXTENDS Integers, Sequences, FiniteSets, TLC

\* ------------------------------------------------------------------------
\* Bounds of the model
\* ------------------------------------------------------------------------
MaxArrLen == 2
MaxLogs == 2
MaxTicks == 3

\* ------------------------------------------------------------------------
\* JavaScript values
\* ------------------------------------------------------------------------
VNull == [t |-> "null", n |-> 0, s |-> "", e |-> <<>>, k |-> <<>>]
VUndef == [t |-> "undefined", n |-> 0, s |-> "", e |-> <<>>, k |-> <<>>]
VBool(b) == [t |-> "boolean", n |-> IF b THEN 1 ELSE 0, s |-> "", e |-> <<>>, k |-> <<>>]
VNum(x) == [t |-> "number", n |-> x, s |-> "", e |-> <<>>, k |-> <<>>]
VStr(x) == [t |-> "string", n |-> 0, s |-> x, e |-> <<>>, k |-> <<>>]
VArr(elems) == [t |-> "array", n |-> 0, s |-> "", e |-> elems, k |-> <<>>]
VObj(keys, vals) == [t |-> "object", n |-> 0, s |-> "", e |-> vals, k |-> keys]

\* typeof v
TypeOf(v) ==
  IF v.t \in {"null", "array", "object"} THEN "object" ELSE v.t

\* Array.isArray(v)
IsArray(v) == v.t = "array"

\* String(n) for the numbers of the model
NumStr(x) ==
  <<"0", "1", "2", "3", "4", "5", "6", "7", "8", "9", "10", "11", "12">>[x + 1]

BoolStr(b) == IF b THEN "true" ELSE "false"

\* String(v) for a number or a string
ToStr(v) == IF v.t = "number" THEN NumStr(v.n) ELSE v.s

\* The property names of the model in the order Array.prototype.sort()
\* puts them (UTF-16 code units).
KeyOrder == <<"0", "1", "2", "3", "a", "b">>

KeyRank(key) == CHOOSE i \in 1..Len(KeyOrder) : KeyOrder[i] = key

\* Object.keys(v): the indices of an array, the own property names of an
\* object.
ObjectKeys(v) ==
  IF v.t = "array" THEN [i \in 1..Len(v.e) |-> KeyOrder[i]] ELSE v.k

\* keys.sort()
RECURSIVE SortKeysFrom(_, _)
SortKeysFrom(keySet, i) ==
  IF i > Len(KeyOrder) THEN <<>>
  ELSE IF KeyOrder[i] \in keySet
       THEN <<KeyOrder[i]>> \o SortKeysFrom(keySet, i + 1)
       ELSE SortKeysFrom(keySet, i + 1)

SortKeys(keys) == SortKeysFrom({keys[i] : i \in 1..Len(keys)}, 1)

\* v[key] for a key that v has
GetProp(v, key) ==
  IF v.t = "array" THEN v.e[KeyRank(key)]
  ELSE v.e[CHOOSE i \in 1..Len(v.k) : v.k[i] = key]

\* a === b.  Two arrays or objects are strictly equal only when they are
\* the same reference; the values compared here (one parsed from the
\* captured output, one from the test case) never are.
StrictEquals(a, b) ==
  /\ a.t = b.t
  /\ a.t \in {"null", "undefined", "boolean", "number", "string"}
  /\ a.n = b.n
  /\ a.s = b.s

\* compareValues with the coercion written for one order of the arguments
\* only (a number as actual, a text as expected).
RECURSIVE compareValues_OneWayCoercion(_, _)
compareValues_OneWayCoercion(actual, expected) ==
  IF StrictEquals(actual, expected) THEN TRUE
  ELSE IF actual.t \in {"null", "undefined"} \/ expected.t \in {"null", "undefined"}
  THEN StrictEquals(actual, expected)
  ELSE IF TypeOf(actual) # TypeOf(expected)
  THEN IF TypeOf(actual) = "number" /\ TypeOf(expected) = "string"
       THEN ToStr(actual) = ToStr(expected)
       ELSE FALSE
  ELSE IF IsArray(actual) /\ IsArray(expected)
  THEN IF Len(actual.e) # Len(expected.e) THEN FALSE
       ELSE \A i \in 1..Len(actual.e) :
              compareValues_OneWayCoercion(actual.e[i], expected.e[i])
  ELSE IF TypeOf(actual) = "object" /\ TypeOf(expected) = "object"
  THEN LET actualKeys == SortKeys(ObjectKeys(actual))
           expectedKeys == SortKeys(ObjectKeys(expected))
       IN IF Len(actualKeys) # Len(expectedKeys) THEN FALSE
          ELSE \A i \in 1..Len(actualKeys) :
                 /\ actualKeys[i] = expectedKeys[i]
                 /\ compareValues_OneWayCoercion(GetProp(actual, actualKeys[i]),
                                                 GetProp(expected, expectedKeys[i]))
  ELSE FALSE

\* TestRunner.compareValues(actual, expected)
RECURSIVE compareValues(_, _)
compareValues(actual, expected) ==
  IF StrictEquals(actual, expected) THEN TRUE
  ELSE IF actual.t \in {"null", "undefined"} \/ expected.t \in {"null", "undefined"}
  THEN StrictEquals(actual, expected)
  ELSE IF TypeOf(actual) # TypeOf(expected)
  THEN IF \/ (TypeOf(actual) = "number" /\ TypeOf(expected) = "string")
          \/ (TypeOf(actual) = "string" /\ TypeOf(expected) = "number")
       THEN ToStr(actual) = ToStr(expected)
       ELSE FALSE
  ELSE IF IsArray(actual) /\ IsArray(expected)
  THEN IF Len(actual.e) # Len(expected.e) THEN FALSE
       ELSE \A i \in 1..Len(actual.e) : compareValues(actual.e[i], expected.e[i])
  ELSE IF TypeOf(actual) = "object" /\ TypeOf(expected) = "object"
  THEN LET actualKeys == SortKeys(ObjectKeys(actual))
           expectedKeys == SortKeys(ObjectKeys(expected))
       IN IF Len(actualKeys) # Len(expectedKeys) THEN FALSE
          ELSE \A i \in 1..Len(actualKeys) :
                 /\ actualKeys[i] = expectedKeys[i]
                 /\ compareValues(GetProp(actual, actualKeys[i]),
                                  GetProp(expected, expectedKeys[i]))
  ELSE FALSE

\* CodeRunner.compareValues(actual, expected), the facade's own copy
RECURSIVE CodeRunner_compareValues(_, _)
CodeRunner_compareValues(actual, expected) ==
  IF StrictEquals(actual, expected) THEN TRUE
  ELSE IF actual.t \in {"null", "undefined"} \/ expected.t \in {"null", "undefined"}
  THEN StrictEquals(actual, expected)
  ELSE IF TypeOf(actual) # TypeOf(expected)
  THEN IF \/ (TypeOf(actual) = "number" /\ TypeOf(expected) = "string")
          \/ (TypeOf(actual) = "string" /\ TypeOf(expected) = "number")
       THEN ToStr(actual) = ToStr(expected)
       ELSE FALSE
  ELSE IF IsArray(actual) /\ IsArray(expected)
  THEN IF Len(actual.e) # Len(expected.e) THEN FALSE
       ELSE \A i \in 1..Len(actual.e) :
              CodeRunner_compareValues(actual.e[i], expected.e[i])
  ELSE IF TypeOf(actual) = "object" /\ TypeOf(expected) = "object"
  THEN LET actualKeys == SortKeys(ObjectKeys(actual))
           expectedKeys == SortKeys(ObjectKeys(expected))
       IN IF Len(actualKeys) # Len(expectedKeys) THEN FALSE
          ELSE \A i \in 1..Len(actualKeys) :
                 /\ actualKeys[i] = expectedKeys[i]
                 /\ CodeRunner_compareValues(GetProp(actual, actualKeys[i]),
                                             GetProp(expected, expectedKeys[i]))
  ELSE FALSE

\* ------------------------------------------------------------------------
\* The values the comparator is run on
\* ------------------------------------------------------------------------
Scalars ==
  {VNull, VUndef, VBool(TRUE), VBool(FALSE), VNum(1), VNum(2),
   VStr("1"), VStr("2"), VStr("a")}

Leaves == {VNum(1), VStr("1"), VNull}

PropNames == {"0", "1", "a"}

\* every sequence of at most MaxArrLen elements of S
SeqsUpTo(S) == UNION {[1..m -> S] : m \in 0..MaxArrLen}

\* the sequences of SeqsUpTo(S) without a repeated element
DistinctSeqs(S) ==
  {q \in SeqsUpTo(S) : \A i, j \in 1..Len(q) : i # j => q[i] # q[j]}

FlatArrays == {VArr(q) : q \in SeqsUpTo(Leaves)}

FlatObjects ==
  UNION {{VObj(ks, vs) : vs \in [1..Len(ks) -> Leaves]} : ks \in DistinctSeqs(PropNames)}

Inner == {VArr(<<>>), VObj(<<>>, <<>>), VArr(<<VNum(1)>>), VObj(<<"0">>, <<VNum(1)>>)}

NestedValues ==
  {VArr(<<x>>) : x \in Inner} \cup {VObj(<<"a">>, <<x>>) : x \in Inner}

Values == Scalars \cup FlatArrays \cup FlatObjects \cup NestedValues

\* ------------------------------------------------------------------------
\* Text
\*
\* A JavaScript string that the engine inspects (an error message, a line of
\* captured output, a piece of JSON) is a sequence of tokens: words, JSON
\* punctuation, quoted string literals and the line break "\n".  Blanks
\* between tokens are not represented.
\* ------------------------------------------------------------------------
NL == "\n"

Quote(str) == "\"" \o str \o "\""

\* text.includes(pattern)
Includes(text, pattern) ==
  \E i \in 0..(Len(text) - Len(pattern)) :
    \A j \in 1..Len(pattern) : text[i + j] = pattern[j]

\* the position of the first occurrence of the token tok at or after
\* position i, or Len(text) + 1 when there is none
RECURSIVE FindToken(_, _, _)
FindToken(text, tok, i) ==
  IF i > Len(text) THEN Len(text) + 1
  ELSE IF text[i] = tok THEN i
  ELSE FindToken(text, tok, i + 1)

\* text.split(tok)
RECURSIVE Split(_, _)
Split(text, tok) ==
  LET p == FindToken(text, tok, 1)
  IN IF p > Len(text) THEN <<text>>
     ELSE <<SubSeq(text, 1, p - 1)>> \o Split(SubSeq(text, p + 1, Len(text)), tok)

\* text.trim(): line breaks are the only blanks a text holds
RECURSIVE TrimLeft(_)
TrimLeft(text) ==
  IF text # <<>> /\ Head(text) = NL THEN TrimLeft(Tail(text)) ELSE text

RECURSIVE TrimRight(_)
TrimRight(text) ==
  IF text # <<>> /\ text[Len(text)] = NL
  THEN TrimRight(SubSeq(text, 1, Len(text) - 1))
  ELSE text

Trim(text) == TrimRight(TrimLeft(text))

\* parts.join(sep-token)
RECURSIVE Join(_, _)
Join(parts, sep) ==
  IF parts = <<>> THEN <<>>
  ELSE IF Len(parts) = 1 THEN parts[1]
  ELSE parts[1] \o sep \o Join(Tail(parts), sep)

\* the JavaScript string a text stands for, as one string value
RECURSIVE RawString(_)
RawString(text) ==
  IF text = <<>> THEN ""
  ELSE IF Len(text) = 1 THEN text[1]
  ELSE text[1] \o " " \o RawString(Tail(text))

\* ------------------------------------------------------------------------
\* JSON
\* ------------------------------------------------------------------------
\* JSON.stringify(v) for v other than undefined; with pretty, the line
\* breaks of JSON.stringify(v, null, 2).  An undefined element of an array
\* is written null, an undefined property is left out.
RECURSIVE JsonStringify(_, _)
RECURSIVE JsonElems(_, _, _)
RECURSIVE JsonProps(_, _, _, _)

JsonElems(elems, i, pretty) ==
  IF i > Len(elems) THEN <<>>
  ELSE (IF i > 1 THEN <<",">> ELSE <<>>)
       \o (IF pretty THEN <<NL>> ELSE <<>>)
       \o (IF elems[i].t = "undefined" THEN <<"null">> ELSE JsonStringify(elems[i], pretty))
       \o JsonElems(elems, i + 1, pretty)

JsonProps(v, i, first, pretty) ==
  IF i > Len(v.k) THEN <<>>
  ELSE IF v.e[i].t = "undefined" THEN JsonProps(v, i + 1, first, pretty)
  ELSE (IF first THEN <<>> ELSE <<",">>)
       \o (IF pretty THEN <<NL>> ELSE <<>>)
       \o <<Quote(v.k[i]), ":">> \o JsonStringify(v.e[i], pretty)
       \o JsonProps(v, i + 1, FALSE, pretty)

JsonStringify(v, pretty) ==
  CASE v.t = "null" -> <<"null">>
    [] v.t = "boolean" -> <<BoolStr(v.n = 1)>>
    [] v.t = "number" -> <<NumStr(v.n)>>
    [] v.t = "string" -> <<Quote(v.s)>>
    [] v.t = "array" ->
         LET inner == JsonElems(v.e, 1, pretty)
         IN <<"[">> \o inner \o (IF pretty /\ inner # <<>> THEN <<NL>> ELSE <<>>) \o <<"]">>
    [] v.t = "object" ->
         LET inner == JsonProps(v, 1, TRUE, pretty)
         IN <<"{">> \o inner \o (IF pretty /\ inner # <<>> THEN <<NL>> ELSE <<>>) \o <<"}">>
    [] OTHER -> <<"undefined">>

\* The strings and numbers a JSON text of the model can spell.
JsonStrings == {"", "1", "2", "a", "b", "0", "undefined", "x"}

JsonNumbers == 0..12

JsonFail == [ok |-> FALSE, v |-> VUndef, next |-> 0]

\* JSON.parse, by recursive descent over the tokens from position i on:
\* ok says whether a value was read, v is the value and next the position
\* after it.
RECURSIVE JsonValueAt(_, _)
RECURSIVE JsonElemsAt(_, _, _)
RECURSIVE JsonPropsAt(_, _, _, _)

JsonElemsAt(text, i, acc) ==
  LET r == JsonValueAt(text, i)
  IN IF ~r.ok \/ r.next > Len(text) THEN JsonFail
     ELSE IF text[r.next] = "]"
          THEN [ok |-> TRUE, v |-> VArr(Append(acc, r.v)), next |-> r.next + 1]
     ELSE IF text[r.next] = ","
          THEN JsonElemsAt(text, r.next + 1, Append(acc, r.v))
     ELSE JsonFail

JsonPropsAt(text, i, keys, vals) ==
  IF i + 1 > Len(text) THEN JsonFail
  ELSE IF ~(\E str \in JsonStrings : Quote(str) = text[i]) \/ text[i + 1] # ":" THEN JsonFail
  ELSE LET key == CHOOSE str \in JsonStrings : Quote(str) = text[i]
           r == JsonValueAt(text, i + 2)
           \* a repeated name keeps its first position and takes the last value
           dup == \E j \in 1..Len(keys) : keys[j] = key
           keys2 == IF dup THEN keys ELSE Append(keys, key)
           vals2 == IF dup
                    THEN [j \in 1..Len(vals) |-> IF keys[j] = key THEN r.v ELSE vals[j]]
                    ELSE Append(vals, r.v)
       IN IF ~r.ok \/ r.next > Len(text) THEN JsonFail
          ELSE IF text[r.next] = "}"
               THEN [ok |-> TRUE, v |-> VObj(keys2, vals2), next |-> r.next + 1]
          ELSE IF text[r.next] = ","
               THEN JsonPropsAt(text, r.next + 1, keys2, vals2)
          ELSE JsonFail

JsonValueAt(text, i) ==
  IF i > Len(text) THEN JsonFail
  ELSE LET tok == text[i]
       IN CASE tok = "null" -> [ok |-> TRUE, v |-> VNull, next |-> i + 1]
            [] tok = "true" -> [ok |-> TRUE, v |-> VBool(TRUE), next |-> i + 1]
            [] tok = "false" -> [ok |-> TRUE, v |-> VBool(FALSE), next |-> i + 1]
            [] \E x \in JsonNumbers : NumStr(x) = tok ->
                 [ok |-> TRUE, v |-> VNum(CHOOSE x \in JsonNumbers : NumStr(x) = tok),
                  next |-> i + 1]
            [] \E str \in JsonStrings : Quote(str) = tok ->
                 [ok |-> TRUE, v |-> VStr(CHOOSE str \in JsonStrings : Quote(str) = tok),
                  next |-> i + 1]
            [] tok = "[" ->
                 IF i + 1 <= Len(text) /\ text[i + 1] = "]"
                 THEN [ok |-> TRUE, v |-> VArr(<<>>), next |-> i + 2]
                 ELSE JsonElemsAt(text, i + 1, <<>>)
            [] tok = "{" ->
                 IF i + 1 <= Len(text) /\ text[i + 1] = "}"
                 THEN [ok |-> TRUE, v |-> VObj(<<>>, <<>>), next |-> i + 2]
                 ELSE JsonPropsAt(text, i + 1, <<>>, <<>>)
            [] OTHER -> JsonFail

\* JSON.parse(text): ok is false where JSON.parse throws.  Blank tokens
\* around and inside the value are skipped, as JSON.parse skips them.
JsonParse(text) ==
  LET bare == SelectSeq(text, LAMBDA tok : tok # NL)
      r == JsonValueAt(bare, 1)
  IN IF r.ok /\ r.next = Len(bare) + 1 THEN [ok |-> TRUE, v |-> r.v]
     ELSE [ok |-> FALSE, v |-> VUndef]

\* ------------------------------------------------------------------------
\* SandboxEngine: formatting
\* ------------------------------------------------------------------------
EXECUTION_TIMEOUT == 5000

\* A fault is what a snippet throws: kind is the constructor of the thrown
\* Error ("NonError" for a thrown value that is no Error), message is its
\* message (String(value) for a NonError).
NoFault == [kind |-> "none", message |-> <<>>]

Fault(kind, message) == [kind |-> kind, message |-> message]

\* error instanceof Error
InstanceOfError(fault) ==
  fault.kind \in {"SyntaxError", "ReferenceError", "TypeError", "Error"}

\* SandboxEngine.stringifyValue
stringifyValue(value) ==
  IF value.t = "null" THEN <<"null">>
  ELSE IF value.t = "undefined" THEN <<"undefined">>
  ELSE IF value.t = "string" THEN <<value.s>>
  ELSE IF value.t = "number" \/ value.t = "boolean"
       THEN IF value.t = "number" THEN <<NumStr(value.n)>> ELSE <<BoolStr(value.n = 1)>>
  ELSE JsonStringify(value, TRUE)

\* the prefix formatConsoleOutput writes for a console level
LevelPrefix(type) ==
  IF type = "log" THEN <<>>
  ELSE IF type = "error" THEN <<"[ERROR]">>
  ELSE IF type = "warn" THEN <<"[WARN]">>
  ELSE <<"[INFO]">>

RECURSIVE FormatLogs(_)
FormatLogs(outputs) ==
  IF outputs = <<>> THEN <<>>
  ELSE LevelPrefix(Head(outputs).type) \o Head(outputs).message \o <<NL>>
       \o FormatLogs(Tail(outputs))

\* SandboxEngine.formatConsoleOutput(consoleOutputs, result); a call without
\* result passes undefined
formatConsoleOutput(outputs, result) ==
  Trim(FormatLogs(outputs)
       \o (IF result.t # "undefined" THEN <<NL, "->">> \o stringifyValue(result) ELSE <<>>))

\* SandboxEngine.formatError
formatError(error) ==
  IF error.kind = "SyntaxError" THEN <<"Syntax", "Error:">> \o error.message
  ELSE IF error.kind = "ReferenceError" THEN <<"Reference", "Error:">> \o error.message
  ELSE IF error.kind = "TypeError" THEN <<"Type", "Error:">> \o error.message
  ELSE IF InstanceOfError(error) THEN <<"Error:">> \o error.message
  ELSE <<"Unknown", "Error:">> \o error.message

\* the message of the Error the timer callback rejects with
TimerFaultMessage == <<"Execution", "timeout">>

\* the fixed text reported for a timeout
TimeoutMessage == <<"Code", "execution", "timed", "out", "after", "5", "seconds">>

\* An ExecutionResult; error is meaningful when hasError (error?: string)
NoResult ==
  [output |-> <<>>, error |-> <<>>, hasError |-> FALSE, executionTime |-> 0,
   timedOut |-> FALSE]

\* A promise returned by runInSandbox
PendingPromise == [state |-> "pending", value |-> VUndef, fault |-> NoFault]

\* A snippet is what it does when run: the console calls it makes, in
\* order, and how it ends: "return" (of value), "throw" (of fault),
\* "syntax" (it does not compile: new Function throws fault), "loop" (it
\* never ends) or "promise" (it returns a promise that never settles).
Snippet(logs, end, value, fault) ==
  [logs |-> logs, end |-> end, value |-> value, fault |-> fault]

NoSnippet == Snippet(<<>>, "return", VUndef, NoFault)

LogEntry(type, message) == [type |-> type, message |-> message]

\* createSandboxGlobals: the names the snippet's function takes as
\* parameters, bound to a host object made safe or passed through ...
SafeGlobals ==
  {"console", "Math", "Date", "JSON", "parseInt", "parseFloat", "isNaN", "isFinite",
   "String", "Number", "Boolean", "Array", "Object", "RegExp", "Error", "TypeError",
   "ReferenceError", "SyntaxError"}

\* ... or bound to undefined
DisabledGlobals ==
  {"window", "document", "global", "process", "require", "module", "exports", "fetch",
   "XMLHttpRequest", "WebSocket", "localStorage", "sessionStorage", "indexedDB",
   "FileReader", "File", "Blob", "URL", "Worker", "SharedWorker", "ServiceWorker",
   "eval", "Function", "setTimeout", "setInterval", "clearTimeout", "clearInterval"}

\* typeof of a global the page that hosts the engine defines; "undefined"
\* for a name the page does not define
HostTypeof(name) ==
  IF name \in {"window", "document", "globalThis", "self", "localStorage",
               "sessionStorage", "indexedDB", "Math", "JSON", "console"}
  THEN "object"
  ELSE IF name \in {"global", "process", "require", "module", "exports"}
  THEN "undefined"
  ELSE "function"

\* typeof name inside the snippet: a parameter of the function shadows the
\* global of that name, and any other name resolves in the global scope,
\* the function made by new Function being a closure of the global scope
\* only
SandboxTypeof(name) ==
  IF name \in DisabledGlobals THEN "undefined"
  ELSE IF name = "console" THEN "object"
  ELSE HostTypeof(name)

\* the snippet console.log(typeof name)
TypeofSnippet(name) ==
  Snippet(<<LogEntry("log", <<SandboxTypeof(name)>>)>>, "return", VUndef, NoFault)

\* ------------------------------------------------------------------------
\* MultiLanguageEngine: routing and result shaping
\* ------------------------------------------------------------------------
\* language.toLowerCase(), on the identifiers of the model
toLowerCase(str) ==
  CASE str = "JavaScript" -> "javascript"
    [] str = "JS" -> "js"
    [] str = "Python" -> "python"
    [] str = "PY" -> "py"
    [] str = "Java" -> "java"
    [] str = "COBOL" -> "cobol"
    [] OTHER -> str

\* MultiLanguageEngine.getSupportedLanguages()
getSupportedLanguages == {"javascript", "python", "java"}

\* the case labels of the switch of executeCode
JavaScriptLabels == {"javascript", "js"}

PythonLabels == {"python", "py"}

JavaLabels == {"java"}

\* the error of the default branch of the switch
UnsupportedMessage(language) ==
  <<"Language", Quote(language), "is", "not", "supported", "yet", ".", "Supported",
    "languages", ":", "JavaScript", ",", "Python">>

\* A LanguageExecutionResult
LanguageResult(output, hasError, error, executionTime, language) ==
  [output |-> output, hasError |-> hasError, error |-> error,
   executionTime |-> executionTime, timedOut |-> FALSE, language |-> language]

NoLanguageResult == LanguageResult(<<>>, FALSE, <<>>, 0, "")

\* Code is what its interpreters make of it: js is the snippet it is when
\* run as JavaScript, prints are the lines written by those of its
\* statements that are a print of a string literal, which are the
\* statements the Python fallback interpreter gives an output to.
Program(js, prints) == [js |-> js, prints |-> prints]

NoProgram == Program(NoSnippet, <<>>)

\* the index of the first console call of logs that is not console.log
\* (the console of runJavaScriptInSandbox has no other method), 0 if none
RECURSIVE FirstNonLog(_, _)
FirstNonLog(logs, i) ==
  IF i > Len(logs) THEN 0
  ELSE IF logs[i].type # "log" THEN i
  ELSE FirstNonLog(logs, i + 1)

\* MultiLanguageEngine.runJavaScriptInSandbox(code) for a snippet that
\* ends: the { output, error } its promise resolves to
runJavaScriptInSandbox(code) ==
  LET bad == FirstNonLog(code.logs, 1)
      ran == IF bad > 0 THEN SubSeq(code.logs, 1, bad - 1) ELSE code.logs
      joined == Join([i \in 1..Len(ran) |-> ran[i].message], <<NL>>)
      value == IF code.end = "promise" THEN VObj(<<>>, <<>>) ELSE code.value
  IN IF code.end = "syntax"
     THEN [output |-> <<>>, hasError |-> TRUE, error |-> code.fault.message]
     ELSE IF bad > 0
     THEN [output |-> joined, hasError |-> TRUE,
           error |-> <<"console." \o code.logs[bad].type, "is", "not", "a", "function">>]
     ELSE IF code.end = "throw"
     THEN [output |-> joined, hasError |-> TRUE,
           error |-> IF InstanceOfError(code.fault) THEN code.fault.message
                     ELSE <<"Unknown", "error">>]
     ELSE [output |-> IF ran # <<>> THEN joined
                      ELSE IF value.t # "undefined"
                      THEN (IF TypeOf(value) = "object" THEN JsonStringify(value, TRUE)
                            ELSE <<ToStr(value)>>)
                      ELSE <<"Code", "executed", "successfully", "(no", "output)">>,
           hasError |-> FALSE, error |-> <<>>]

\* whether the thread comes back from running the snippet
Returns(code) == code.end # "loop" \/ FirstNonLog(code.logs, 1) > 0

\* The answer to a fetch: kind "network" when fetch rejects, else an HTTP
\* response with a status and a body; body "invalid" is a body that is no
\* JSON, else the body has the fields status, stdout, stderr, exception
\* (empty when left out).
Response(kind, status, body, stdout, stderr, exception) ==
  [kind |-> kind, status |-> status, body |-> body, stdout |-> stdout,
   stderr |-> stderr, exception |-> exception]

NoResponse == Response("none", 0, "", <<>>, <<>>, <<>>)

\* response.ok
ResponseOk(response) == response.status >= 200 /\ response.status <= 299

\* a || b on strings
OrElse(a, b) == IF a # <<>> THEN a ELSE b

\* MultiLanguageEngine.simulatePythonExecution(code, stdin)
simulatePythonExecution(code) ==
  LET output == FormatLogs([i \in 1..Len(code.prints) |->
                             LogEntry("log", code.prints[i])])
  IN [output |-> OrElse(output, <<"Code", "executed", "(no", "output)">>),
      hasError |-> FALSE, error |-> <<>>]

PythonKeyMessage ==
  <<"Python", "execution", "requires", "a", "valid", "RapidAPI", "key", ".", "Please",
    "set", "REACT_APP_RAPIDAPI_KEY", "in", "your", ".env", "file", ".">>

JavaKeyMessage ==
  <<"Java", "execution", "requires", "a", "valid", "RapidAPI", "key", ".", "Please",
    "set", "VITE_RAPIDAPI_KEY", "in", "your", ".env", "file", ".">>

\* what callPythonAPI returns once fetch has been answered with response
callPythonAPI(code, response) ==
  IF response.kind = "network" THEN simulatePythonExecution(code)
  ELSE IF ~ResponseOk(response)
  THEN IF response.status = 401 \/ response.status = 403
       THEN [output |-> <<>>, hasError |-> TRUE, error |-> PythonKeyMessage]
       ELSE simulatePythonExecution(code)
  ELSE IF response.body = "invalid" THEN simulatePythonExecution(code)
  ELSE IF response.body = "success"
  THEN [output |-> response.stdout, hasError |-> response.stderr # <<>>,
        error |-> response.stderr]
  ELSE [output |-> <<>>, hasError |-> TRUE,
        error |-> OrElse(response.stderr,
                         OrElse(response.exception, <<"Execution", "failed">>))]

\* what callJavaAPI returns once fetch has been answered with response
callJavaAPI(response) ==
  IF response.kind = "network"
  THEN [output |-> <<>>, hasError |-> TRUE,
        error |-> <<"Java", "execution", "failed", ":", "Failed", "to", "fetch">>]
  ELSE IF ~ResponseOk(response)
  THEN [output |-> <<>>, hasError |-> TRUE, error |-> JavaKeyMessage]
  ELSE IF response.body = "invalid"
  THEN [output |-> <<>>, hasError |-> TRUE,
        error |-> <<"Java", "execution", "failed", ":", "Unexpected", "token">>]
  ELSE IF response.body = "success"
  THEN [output |-> response.stdout, hasError |-> response.stderr # <<>>,
        error |-> response.stderr]
  ELSE [output |-> <<>>, hasError |-> TRUE,
        error |-> OrElse(response.stderr,
                         OrElse(response.exception, <<"Java", "execution", "failed">>))]

\* ------------------------------------------------------------------------
\* TestRunner: one test case
\* ------------------------------------------------------------------------
RESULT_MARKER == "__TEST_RESULT__:"

ERROR_MARKER == "__TEST_ERROR__:"

\* A TestCase.  userInputs is the optional field the custom test form adds
\* (empty when absent).
TestCase(name, functionName, input, expected, line) ==
  [name |-> name, functionName |-> functionName, input |-> input,
   expected |-> expected, line |-> line, userInputs |-> <<>>]

\* User code is what it declares and does when evaluated: top says whether
\* it compiles ("syntax" when not), logs are the console.log calls of its
\* top level, defs binds each name the tests call to what the binding is:
\* "absent", "notfn" (a value that is no function), or a function that
\* returns a + b ("sum"), a * b ("product"), its first argument ("first"),
\* undefined ("undef"), throws Error("boom") ("throws") or never returns
\* ("loops").  prints is what the code is to the Python fallback, as in
\* Program.
UserCode(top, logs, addDef, fDef, prints) ==
  [top |-> top, logs |-> logs, defs |-> [add |-> addDef, f |-> fDef],
   prints |-> prints]

DefOf(userCode, functionName) ==
  IF functionName = "add" THEN userCode.defs.add
  ELSE IF functionName = "f" THEN userCode.defs.f
  ELSE "absent"

\* the value the bound function returns for the arguments input
ReturnValue(def, input) ==
  IF def = "sum" THEN VNum(input[1].n + input[2].n)
  ELSE IF def = "product" THEN VNum(input[1].n * input[2].n)
  ELSE IF def = "first" THEN (IF Len(input) >= 1 THEN input[1] ELSE VUndef)
  ELSE VUndef

\* the message of the Error thrown when typeof functionName !== 'function'
NotDefinedMessage(functionName) ==
  <<"Function", Quote(functionName), "is", "not", "defined", "or", "is", "not", "a",
    "function">>

\* console.log('__TEST_RESULT__:', JSON.stringify(result)): JSON.stringify
\* gives undefined for undefined, which console.log writes as "undefined"
ResultLog(result) ==
  LogEntry("log",
           <<RESULT_MARKER>>
           \o (IF result.t = "undefined" THEN stringifyValue(VUndef)
               ELSE JsonStringify(result, FALSE)))

\* console.log('__TEST_ERROR__:', error.message); a thrown value that is no
\* Error has no message
ErrorLog(fault) ==
  LogEntry("log",
           <<ERROR_MARKER>>
           \o (IF InstanceOfError(fault) THEN fault.message ELSE stringifyValue(VUndef)))

\* the pieces of an argument list: the text between the commas that are
\* inside no bracket
RECURSIVE SplitTop(_, _, _, _)
SplitTop(text, i, depth, cur) ==
  IF i > Len(text) THEN <<cur>>
  ELSE IF text[i] = "," /\ depth = 0
  THEN <<cur>> \o SplitTop(text, i + 1, 0, <<>>)
  ELSE SplitTop(text, i + 1,
                IF text[i] \in {"[", "{"} THEN depth + 1
                ELSE IF text[i] \in {"]", "}"} THEN depth - 1
                ELSE depth,
                Append(cur, text[i]))

\* the pieces the language reads as arguments: none for an empty list, and
\* a comma before the closing parenthesis is allowed
ArgumentPieces(text) ==
  LET pieces == SplitTop(text, 1, 0, <<>>)
  IN IF text = <<>> THEN <<>>
     ELSE IF Len(pieces) >= 2 /\ pieces[Len(pieces)] = <<>>
     THEN SubSeq(pieces, 1, Len(pieces) - 1)
     ELSE pieces

\* What a call passes: ok is false where the call does not compile or an
\* argument does not evaluate
Arguments(ok, args) == [ok |-> ok, args |-> args]

NoArguments == Arguments(FALSE, <<>>)

\* testCase.input.map(arg => JSON.stringify(arg)).join(', '): join writes
\* nothing for the undefined that JSON.stringify(undefined) is
JsArgumentText(input) ==
  Join([i \in 1..Len(input) |->
          IF input[i].t = "undefined" THEN <<>> ELSE JsonStringify(input[i], FALSE)],
       <<",">>)

\* the arguments JavaScript evaluates the text to: a JSON text is an
\* expression of its value, a missing expression is a syntax error
JsArguments(text) ==
  LET pieces == ArgumentPieces(text)
  IN IF \A i \in 1..Len(pieces) : JsonParse(pieces[i]).ok
     THEN Arguments(TRUE, [i \in 1..Len(pieces) |-> JsonParse(pieces[i]).v])
     ELSE NoArguments

\* String(v): an array is its elements joined by commas, null and
\* undefined elements written as nothing; an object is [object Object]
RECURSIVE JsString(_)
JsString(v) ==
  CASE v.t = "null" -> <<"null">>
    [] v.t = "undefined" -> <<"undefined">>
    [] v.t = "boolean" -> <<BoolStr(v.n = 1)>>
    [] v.t = "number" -> <<NumStr(v.n)>>
    [] v.t = "string" -> IF v.s = "" THEN <<>> ELSE <<v.s>>
    [] v.t = "array" ->
         Join([i \in 1..Len(v.e) |->
                 IF v.e[i].t \in {"null", "undefined"} THEN <<>> ELSE JsString(v.e[i])],
              <<",">>)
    [] OTHER -> <<"[", "object", "Object", "]">>

\* createPythonTestCode's args: "${arg}" for a string, String(arg) for
\* anything else, joined with ', '
PyArgumentText(input) ==
  Join([i \in 1..Len(input) |->
          IF input[i].t = "string" THEN <<Quote(input[i].s)>> ELSE JsString(input[i])],
       <<",">>)

\* the value Python evaluates a piece to: a number and a string literal are
\* their value; a name that Python does not bind (true, null, a) and a text
\* that is no expression raise
PyValue(piece) ==
  IF Len(piece) = 1 /\ JsonParse(piece).ok /\ JsonParse(piece).v.t \in {"number", "string"}
  THEN JsonParse(piece)
  ELSE [ok |-> FALSE, v |-> VUndef]

\* the arguments Python evaluates the text to
PyArguments(text) ==
  LET pieces == ArgumentPieces(text)
  IN IF \A i \in 1..Len(pieces) : PyValue(pieces[i]).ok
     THEN Arguments(TRUE, [i \in 1..Len(pieces) |-> PyValue(pieces[i]).v])
     ELSE NoArguments

\* TestRunner.createIsolatedTestCode(userCode, testCase), as the snippet the
\* wrapper text is: the user code runs first and outside the try block, the
\* call runs inside it, and the wrapper is an expression statement, so the
\* snippet itself returns undefined.
createIsolatedTestCode(userCode, testCase) ==
  LET def == DefOf(userCode, testCase.functionName)
      call == JsArguments(JsArgumentText(testCase.input))
      boom == Fault("Error", <<"boom">>)
      missing == Fault("Error", NotDefinedMessage(testCase.functionName))
  IN IF userCode.top = "syntax" \/ ~call.ok
     THEN Snippet(<<>>, "syntax", VUndef, Fault("SyntaxError", <<"Unexpected", "token">>))
     ELSE IF def \in {"absent", "notfn"}
     THEN Snippet(Append(userCode.logs, ErrorLog(missing)), "throw", VUndef, missing)
     ELSE IF def = "throws"
     THEN Snippet(Append(userCode.logs, ErrorLog(boom)), "throw", VUndef, boom)
     ELSE IF def = "loops"
     THEN Snippet(userCode.logs, "loop", VUndef, NoFault)
     ELSE Snippet(Append(userCode.logs, ResultLog(ReturnValue(def, call.args))),
                  "return", VUndef, NoFault)

\* JSON.parse(text), the raw string where it throws
ParseOrRaw(text) ==
  LET r == JsonParse(text)
  IN IF r.ok THEN r.v ELSE VStr(RawString(text))

\* the first line of lines that includes the marker, 0 when none does
RECURSIVE FirstMarked(_, _, _)
FirstMarked(lines, marker, i) ==
  IF i > Len(lines) THEN 0
  ELSE IF Includes(lines[i], <<marker>>) THEN i
  ELSE FirstMarked(lines, marker, i + 1)

\* TestRunner.extractTestResult(output)
extractTestResult(output) ==
  LET lines == Split(output, NL)
      m == FirstMarked(lines, RESULT_MARKER, 1)
      lastLine == Trim(lines[Len(lines)])
  IN IF m > 0 THEN ParseOrRaw(Trim(Split(lines[m], RESULT_MARKER)[2]))
     ELSE IF lastLine # <<>> THEN ParseOrRaw(lastLine)
     ELSE VUndef

\* TestRunner.formatTestError(error, testCase)
formatTestError(error, testCase) ==
  LET fn == Quote(testCase.functionName)
  IN IF Includes(error, <<"is", "not", "defined">>)
     THEN <<"Function", fn, "is", "not", "defined", ".", "Make", "sure", "you've",
            "implemented", "the", "function", ".">>
     ELSE IF Includes(error, <<"is", "not", "a", "function">>)
     THEN <<fn, "exists", "but", "is", "not", "a", "function", ".", "Check", "your",
            "implementation", ".">>
     ELSE IF Includes(error, <<"timeout">>)
     THEN <<"Test", "case", "timed", "out", ".", "The", "function", fn, "may", "have",
            "an", "infinite", "loop", "or", "be", "too", "slow", ".">>
     ELSE IF Includes(error, <<"Maximum", "call", "stack">>)
     THEN <<"Stack", "overflow", "detected", "in", fn, ".", "Check", "for", "infinite",
            "recursion", ".">>
     ELSE error

\* A TestExecutionResult; actual and error are meaningful when hasActual and
\* hasError (optional fields of the interface); output is always given by
\* the callers of the model
TestExecutionResult(testCase, passed, hasActual, actual, hasError, error, time, output) ==
  [testCase |-> testCase, passed |-> passed, hasActual |-> hasActual,
   actual |-> actual, hasError |-> hasError, error |-> error,
   executionTime |-> time, output |-> output]

\* what TestRunner.executeTestCase returns once the sandbox has resolved to
\* executionResult; an empty error string counts as no error
executeTestCase(testCase, executionResult, executionTime) ==
  IF executionResult.hasError /\ executionResult.error # <<>>
  THEN TestExecutionResult(testCase, FALSE, FALSE, VUndef, TRUE,
                           formatTestError(executionResult.error, testCase),
                           executionTime, executionResult.output)
  ELSE LET actual == extractTestResult(executionResult.output)
       IN TestExecutionResult(testCase, compareValues(actual, testCase.expected),
                              TRUE, actual, FALSE, <<>>,
                              executionTime, executionResult.output)

\* ------------------------------------------------------------------------
\* Test suites
\* ------------------------------------------------------------------------
\* the number of results of results that passed
RECURSIVE CountPassed(_)
CountPassed(results) ==
  IF results = <<>> THEN 0
  ELSE (IF Head(results).passed THEN 1 ELSE 0) + CountPassed(Tail(results))

\* the number of results of results that did not pass
RECURSIVE CountNotPassed(_)
CountNotPassed(results) ==
  IF results = <<>> THEN 0
  ELSE (IF ~Head(results).passed THEN 1 ELSE 0) + CountNotPassed(Tail(results))

RECURSIVE SumExecutionTime(_)
SumExecutionTime(results) ==
  IF results = <<>> THEN 0
  ELSE Head(results).executionTime + SumExecutionTime(Tail(results))

\* A TestSuiteResult
TestSuiteResult(results, totalTests, passedTests, failedTests, time, parseErrors) ==
  [results |-> results, totalTests |-> totalTests, passedTests |-> passedTests,
   failedTests |-> failedTests, totalExecutionTime |-> time,
   hasParseErrors |-> parseErrors # <<>>, parseErrors |-> parseErrors]

NoSuiteResult == TestSuiteResult(<<>>, 0, 0, 0, 0, <<>>)

\* a summary in which the failed tests are the results with an error
RECURSIVE CountFaulted(_)
CountFaulted(results) ==
  IF results = <<>> THEN 0
  ELSE (IF Head(results).hasError THEN 1 ELSE 0) + CountFaulted(Tail(results))

SuiteSummary_FailedAreFaults(results, totalExecutionTime, parseErrors) ==
  TestSuiteResult(results, Len(results), CountPassed(results),
                  CountFaulted(results), totalExecutionTime, parseErrors)

\* the summary of TestRunner.executeTestSuite, which is also that of
\* CodeRunner.runTestsWithLanguage: the failed tests are the results less
\* the passed ones
SuiteSummary(results, totalExecutionTime, parseErrors) ==
  TestSuiteResult(results, Len(results), CountPassed(results),
                  Len(results) - CountPassed(results), totalExecutionTime, parseErrors)

\* the summary of ExecutionPanel.runCustomTests for program tests: the two
\* counts are filtered separately, the time is the sum over the results
ProgramSuiteSummary(results) ==
  TestSuiteResult(results, Len(results), CountPassed(results),
                  CountNotPassed(results), SumExecutionTime(results), <<>>)

\* the JavaScript branch of CodeRunner.createLanguageTestCode, as a snippet:
\* the user code and the call are statements of the snippet itself
FallbackTestSnippet(userCode, testCase) ==
  LET def == DefOf(userCode, testCase.functionName)
      call == JsArguments(JsArgumentText(testCase.input))
      boom == Fault("Error", <<"boom">>)
      missing == Fault("Error", <<"Function", testCase.functionName, "is", "not",
                                  "defined">>)
  IN IF userCode.top = "syntax" \/ ~call.ok
     THEN Snippet(<<>>, "syntax", VUndef, Fault("SyntaxError", <<"Unexpected", "token">>))
     ELSE IF def \in {"absent", "notfn"}
     THEN Snippet(Append(userCode.logs, ErrorLog(missing)), "throw", VUndef, missing)
     ELSE IF def = "throws"
     THEN Snippet(Append(userCode.logs, ErrorLog(boom)), "throw", VUndef, boom)
     ELSE IF def = "loops"
     THEN Snippet(userCode.logs, "loop", VUndef, NoFault)
     ELSE Snippet(Append(userCode.logs, ResultLog(ReturnValue(def, call.args))),
                  "return", VUndef, NoFault)

\* the line the Python fallback writes for print('__TEST_RESULT__:', result):
\* the text between the parentheses, unevaluated
PythonResultLine == <<"'", RESULT_MARKER, "',", "result">>

\* CodeRunner.createLanguageTestCode(userCode, testCase, language).  The
\* Python test code is no JavaScript (js is left at NoSnippet: it is never
\* run as such); of its statements the fallback gives an output to the
\* prints of the user code and to the print of the result.
createLanguageTestCode(userCode, testCase, language) ==
  IF toLowerCase(language) \in PythonLabels
  THEN Program(NoSnippet, Append(userCode.prints, PythonResultLine))
  ELSE Program(FallbackTestSnippet(userCode, testCase), <<>>)

\* stdin.split(',').map(inp => inp.trim()).join('\n'), '' for no userInputs
StdinFormatted(userInputs) ==
  IF userInputs = <<>> THEN <<>>
  ELSE LET parts == Split(userInputs, ",")
       IN Join([i \in 1..Len(parts) |-> Trim(parts[i])], <<NL>>)

\* CodeRunner.extractLanguageTestResult(output, language): Number('') is 0
extractLanguageTestResult(output) ==
  LET lines == Split(output, NL)
      m == FirstMarked(lines, RESULT_MARKER, 1)
      resultStr == Trim(Split(lines[m], RESULT_MARKER)[2])
      r == JsonParse(resultStr)
  IN IF m = 0 THEN VUndef
     ELSE IF r.ok THEN r.v
     ELSE IF resultStr = <<>> THEN VNum(0)
     ELSE VStr(RawString(resultStr))

\* the result CodeRunner.runTestsWithLanguage pushes for testCase once the
\* engine has resolved to executionResult
LanguageCaseResult(testCase, executionResult, executionTime) ==
  IF executionResult.hasError /\ executionResult.error # <<>>
  THEN TestExecutionResult(testCase, FALSE, FALSE, VUndef, TRUE, executionResult.error,
                           executionTime, executionResult.output)
  ELSE LET actual == extractLanguageTestResult(executionResult.output)
       IN TestExecutionResult(testCase,
                              CodeRunner_compareValues(actual, testCase.expected),
                              TRUE, actual, FALSE, <<>>,
                              executionTime, executionResult.output)

\* ------------------------------------------------------------------------
\* TestCaseParser: one line
\*
\* A source line is the sequence of its tokens: words, numbers, quoted
\* literals, brackets, commas, operators and comment markers.  Blanks are
\* not tokens: every pattern of the parser allows them between any two
\* tokens and every capture is trimmed.
\* ------------------------------------------------------------------------
\* the string a token sequence is in the source: a blank between two
\* tokens, except after an opening bracket and before a bracket, a comma or
\* a colon
RECURSIVE Spell(_)
Spell(text) ==
  IF text = <<>> THEN ""
  ELSE IF Len(text) = 1 THEN text[1]
  ELSE text[1]
       \o (IF text[1] \in {"(", "["} \/ text[2] \in {"(", ")", "]", ",", ":"} THEN ""
           ELSE " ")
       \o Spell(Tail(text))

\* the tokens of the model that are not made of word characters
Punctuation ==
  {"(", ")", "[", "]", "{", "}", ",", ":", "=>", "===", "==", "//", "*", "*/", "/*",
   "/**", "/", "'a'", "#"}
  \cup {Quote(str) : str \in JsonStrings}

\* the token is matched by \w+
IsWord(tok) == tok \notin Punctuation

\* TestCaseParser.isCommentLine(line)
isCommentLine(line) == line # <<>> /\ line[1] \in {"//", "*", "*/", "/*", "/**"}

\* TestCaseParser.extractCommentContent(line): what follows the two
\* characters of // and of /*, less a closing */, or the one character *
extractCommentContent(line) ==
  LET rest == Tail(line)
  IN IF line[1] = "//" THEN rest
     ELSE IF line[1] = "*" THEN rest
     ELSE IF line[1] = "*/" THEN <<"/">> \o rest
     ELSE LET body == IF line[1] = "/**" THEN <<"*">> \o rest ELSE rest
          IN IF body # <<>> /\ body[Len(body)] = "*/"
             THEN SubSeq(body, 1, Len(body) - 1)
             ELSE body

\* the least element of a non-empty set of numbers
Least(S) == CHOOSE n \in S : \A m \in S : n <= m

\* What a pattern captures: ok is false when it does not match.
Captures(functionName, args, expected) ==
  [ok |-> TRUE, functionName |-> functionName, args |-> args, expected |-> expected]

NoMatch == [ok |-> FALSE, functionName |-> "", args |-> <<>>, expected |-> <<>>]

\* the leftmost match: at the least of the positions where at(i) matches
Leftmost(line, at(_)) ==
  LET starts == {i \in 1..Len(line) : at(i).ok}
  IN IF starts = {} THEN NoMatch ELSE at(Least(starts))

\* /(\w+)\s*\(\s*\[(.*?)\]\s*,\s*(.*?)\s*\)/ from position i: both captures
\* are lazy, so the first ends at the first ] that a comma follows and
\* that has a ) after it, the second at the first ) after that comma
ArrayPatternAt(line, i) ==
  IF ~(i + 2 <= Len(line) /\ IsWord(line[i]) /\ line[i + 1] = "(" /\ line[i + 2] = "[")
  THEN NoMatch
  ELSE LET closes == {j \in (i + 3)..(Len(line) - 2) :
                       /\ line[j] = "]" /\ line[j + 1] = ","
                       /\ \E k \in (j + 2)..Len(line) : line[k] = ")"}
       IN IF closes = {} THEN NoMatch
          ELSE LET j == Least(closes)
                   k == Least({k \in (j + 2)..Len(line) : line[k] = ")"})
               IN Captures(line[i], SubSeq(line, i + 3, j - 1),
                           SubSeq(line, j + 2, k - 1))

ArrayPattern(line) == Leftmost(line, LAMBDA i : ArrayPatternAt(line, i))

\* /(\w+)\s*\(\s*(.*?)\s*\)\s*=>\s*(.+)/ from position i: the lazy capture
\* ends at the first ) that => follows with something after it, the greedy
\* one runs to the end of the line
ArrowPatternAt(line, i) ==
  IF ~(i + 1 <= Len(line) /\ IsWord(line[i]) /\ line[i + 1] = "(")
  THEN NoMatch
  ELSE LET closes == {k \in (i + 2)..(Len(line) - 2) :
                       line[k] = ")" /\ line[k + 1] = "=>"}
       IN IF closes = {} THEN NoMatch
          ELSE LET k == Least(closes)
               IN Captures(line[i], SubSeq(line, i + 2, k - 1),
                           SubSeq(line, k + 2, Len(line)))

ArrowPattern(line) == Leftmost(line, LAMBDA i : ArrowPatternAt(line, i))

\* /assert\s*\(\s*(\w+)\s*\(\s*(.*?)\s*\)\s*===?\s*(.*?)\s*\)/ from
\* position i
AssertPatternAt(line, i) ==
  IF ~(/\ i + 3 <= Len(line) /\ line[i] = "assert" /\ line[i + 1] = "("
       /\ IsWord(line[i + 2]) /\ line[i + 3] = "(")
  THEN NoMatch
  ELSE LET closes == {k \in (i + 4)..(Len(line) - 2) :
                       /\ line[k] = ")" /\ line[k + 1] \in {"===", "=="}
                       /\ \E m \in (k + 2)..Len(line) : line[m] = ")"}
       IN IF closes = {} THEN NoMatch
          ELSE LET k == Least(closes)
                   m == Least({m \in (k + 2)..Len(line) : line[m] = ")"})
               IN Captures(line[i + 2], SubSeq(line, i + 4, k - 1),
                           SubSeq(line, k + 2, m - 1))

AssertPattern(line) == Leftmost(line, LAMBDA i : AssertPatternAt(line, i))

\* the literal between the single quotes of the token, for the tokens of
\* the model that are so quoted
SingleQuoted(tok) == IF tok = "'a'" THEN "a" ELSE tok

\* JSON.parse(text), the string as spelled in the source where it throws
ParseOrSpell(text) ==
  LET r == JsonParse(text)
  IN IF r.ok THEN r.v ELSE VStr(Spell(text))

\* TestCaseParser.parseValue(valueStr).  Number('') is 0; the other texts
\* of the model that JSON.parse rejects are no numbers.
parseValue(valueStr) ==
  LET trimmed == Trim(valueStr)
      r == JsonParse(trimmed)
  IN IF trimmed = <<"null">> THEN VNull
     ELSE IF trimmed = <<"undefined">> THEN VUndef
     ELSE IF trimmed = <<"true">> THEN VBool(TRUE)
     ELSE IF trimmed = <<"false">> THEN VBool(FALSE)
     ELSE IF r.ok THEN r.v
     ELSE IF Len(trimmed) = 1 /\ SingleQuoted(trimmed[1]) # trimmed[1]
     THEN VStr(SingleQuoted(trimmed[1]))
     ELSE IF trimmed = <<>> THEN VNum(0)
     ELSE VStr(Spell(trimmed))

\* one argument of the arrow form: Number(arg) when that is a number, else
\* JSON.parse(arg), else arg itself
ArrowArgument(arg) ==
  IF arg = <<>> THEN VNum(0)
  ELSE IF Len(arg) = 1 /\ \E n \in JsonNumbers : NumStr(n) = arg[1]
  THEN VNum(CHOOSE n \in JsonNumbers : NumStr(n) = arg[1])
  ELSE ParseOrSpell(arg)

\* TestCaseParser.parseArgumentList(argsStr)
parseArgumentList(argsStr) ==
  LET whole == JsonParse(<<"[">> \o argsStr \o <<"]">>)
      parts == Split(argsStr, ",")
  IN IF Trim(argsStr) = <<>> THEN <<>>
     ELSE IF whole.ok THEN whole.v.e
     ELSE [i \in 1..Len(parts) |-> parseValue(parts[i])]

\* `Test ${index + 1}`
TestName(index) == <<"Test", NumStr(index + 1)>>

\* What a grammar returns: status "null" (no match), "throw", or
\* "testCase" with the test case.
Parsed(status, functionName, input, expected, index, lineNumber) ==
  [status |-> status,
   testCase |-> TestCase(TestName(index), functionName, input, expected, lineNumber)]

NotParsed(status) == Parsed(status, "", <<>>, VUndef, 0, 0)

\* TestCaseParser.parseArrayFormat(line, index, lineNumber)
parseArrayFormat(line, index, lineNumber) ==
  LET match == ArrayPattern(line)
      input == JsonParse(<<"[">> \o match.args \o <<"]">>)
  IN IF ~match.ok THEN NotParsed("null")
     ELSE IF Trim(match.args) # <<>> /\ ~input.ok THEN NotParsed("throw")
     ELSE Parsed("testCase", match.functionName,
                 IF Trim(match.args) # <<>> THEN input.v.e ELSE <<>>,
                 parseValue(match.expected), index, lineNumber)

\* TestCaseParser.parseArrowFormat(line, index, lineNumber)
parseArrowFormat(line, index, lineNumber) ==
  LET match == ArrowPattern(line)
      args == Split(match.args, ",")
  IN IF ~match.ok THEN NotParsed("null")
     ELSE Parsed("testCase", match.functionName,
                 IF Trim(match.args) # <<>>
                 THEN [i \in 1..Len(args) |-> ArrowArgument(Trim(args[i]))]
                 ELSE <<>>,
                 parseValue(Trim(match.expected)), index, lineNumber)

\* TestCaseParser.parseAssertFormat(line, index, lineNumber)
parseAssertFormat(line, index, lineNumber) ==
  LET match == AssertPattern(line)
  IN IF ~match.ok THEN NotParsed("null")
     ELSE Parsed("testCase", match.functionName,
                 IF Trim(match.args) # <<>> THEN parseArgumentList(match.args)
                 ELSE <<>>,
                 parseValue(match.expected), index, lineNumber)

\* a different priority order of the grammars
parsers_ArrowFirst == <<"arrow", "array", "assert">>

\* the parsers array of parseTestCaseLine
parsers == <<"array", "arrow", "assert">>

\* the pattern of the grammar on line
Pattern(parser, line) ==
  IF parser = "array" THEN ArrayPattern(line)
  ELSE IF parser = "arrow" THEN ArrowPattern(line)
  ELSE AssertPattern(line)

\* parser(line, index, lineNumber)
CallParser(parser, line, index, lineNumber) ==
  IF parser = "array" THEN parseArrayFormat(line, index, lineNumber)
  ELSE IF parser = "arrow" THEN parseArrowFormat(line, index, lineNumber)
  ELSE parseAssertFormat(line, index, lineNumber)

\* A ParseError
ParseError(line, message, originalText) ==
  [line |-> line, message |-> message, originalText |-> originalText]

\* A ParseResult
ParseResult(testCases, errors) == [testCases |-> testCases, errors |-> errors]

NoParseResult == ParseResult(<<>>, <<>>)

\* ------------------------------------------------------------------------
\* MultiLanguageEngine.parseTestCases
\* ------------------------------------------------------------------------
\* MultiLanguageEngine.isCommentLine(line, language)
MlIsCommentLine(line, language) ==
  LET lower == toLowerCase(language)
  IN /\ line # <<>>
     /\ IF lower \in {"javascript", "js"} THEN line[1] \in {"//", "/*", "/**"}
        ELSE IF lower \in {"python", "py"} THEN line[1] = "#"
        ELSE line[1] \in {"//", "#"}

\* MultiLanguageEngine.extractCommentContent(line, language): the switch has
\* no case for a language that is neither JavaScript nor Python, and the
\* line is then returned whole
MlExtractCommentContent(line, language) ==
  LET lower == toLowerCase(language)
      rest == Tail(line)
      body == IF line[1] = "/**" THEN <<"*">> \o rest ELSE rest
  IN IF lower \in {"javascript", "js"} /\ line[1] = "//" THEN rest
     ELSE IF lower \in {"javascript", "js"} /\ line[1] \in {"/*", "/**"}
     THEN (IF body # <<>> /\ body[Len(body)] = "*/" THEN SubSeq(body, 1, Len(body) - 1)
           ELSE body)
     ELSE IF lower \in {"python", "py"} /\ line[1] = "#" THEN rest
     ELSE line

\* MultiLanguageEngine.parseTestCaseLine(line, index, lineNumber, language):
\* the arrow form only; null when the line does not match
MlParseTestCaseLine(line, index, lineNumber) ==
  LET match == ArrowPattern(line)
      args == Split(match.args, ",")
  IN IF ~match.ok THEN NotParsed("null")
     ELSE Parsed("testCase", match.functionName,
                 IF Trim(match.args) # <<>>
                 THEN [i \in 1..Len(args) |-> ArrowArgument(Trim(args[i]))]
                 ELSE <<>>,
                 ParseOrSpell(Trim(match.expected)), index, lineNumber)

\* the loop of MultiLanguageEngine.parseTestCases from line i on, testCases
\* being the array so far (testIndex is its length)
RECURSIVE MlParseFrom(_, _, _, _)
MlParseFrom(lines, i, language, testCases) ==
  IF i > Len(lines) THEN testCases
  ELSE IF ~MlIsCommentLine(lines[i], language)
  THEN MlParseFrom(lines, i + 1, language, testCases)
  ELSE LET testLine == MlExtractCommentContent(lines[i], language)
           parsed == MlParseTestCaseLine(testLine, Len(testCases), i)
       IN MlParseFrom(lines, i + 1, language,
                      IF parsed.status = "testCase" THEN Append(testCases, parsed.testCase)
                      ELSE testCases)

\* MultiLanguageEngine.parseTestCases(code, language)
MlParseTestCases(lines, language) == MlParseFrom(lines, 1, language, <<>>)

\* ------------------------------------------------------------------------
\* ExecutionPanel: the custom test cases
\* ------------------------------------------------------------------------
\* A custom test case, with the fields of the form as the user typed them
CustomTestCase(name, functionName, inputs, expected, programInputs, expectedOutput) ==
  [name |-> name, functionName |-> functionName, inputs |-> inputs,
   expected |-> expected, programInputs |-> programInputs,
   expectedOutput |-> expectedOutput]

\* A program test of runCustomTests
ProgramTest(name, programInputs, expectedOutput, line) ==
  [name |-> name, programInputs |-> programInputs,
   expectedOutput |-> expectedOutput, line |-> line]

\* the programTests runCustomTests collects from customTestCases[i..]
RECURSIVE ProgramTests(_, _, _)
ProgramTests(customTestCases, i, acc) ==
  IF i > Len(customTestCases) THEN acc
  ELSE LET tc == customTestCases[i]
       IN IF tc.expectedOutput = <<>> THEN ProgramTests(customTestCases, i + 1, acc)
          ELSE ProgramTests(customTestCases, i + 1,
                 Append(acc, ProgramTest(OrElse(tc.name, <<"Program", "Test",
                                                           NumStr(Len(acc) + 1)>>),
                                         tc.programInputs, tc.expectedOutput, i)))

\* the inputs of a function test: JSON.parse of the bracketed text, else
\* the parts between commas, each parsed or raw
FunctionTestInputs(inputs) ==
  LET whole == JsonParse(<<"[">> \o inputs \o <<"]">>)
      parts == Split(inputs, ",")
  IN IF Trim(inputs) = <<>> THEN <<>>
     ELSE IF whole.ok THEN whole.v.e
     ELSE [i \in 1..Len(parts) |-> ParseOrRaw(Trim(parts[i]))]

\* the functionTests runCustomTests collects from customTestCases[i..]
RECURSIVE FunctionTests(_, _, _)
FunctionTests(customTestCases, i, acc) ==
  IF i > Len(customTestCases) THEN acc
  ELSE LET tc == customTestCases[i]
       IN IF tc.functionName = "" \/ tc.expected = <<>>
          THEN FunctionTests(customTestCases, i + 1, acc)
          ELSE FunctionTests(customTestCases, i + 1,
                 Append(acc, [name |-> tc.name, functionName |-> tc.functionName,
                              input |-> FunctionTestInputs(tc.inputs),
                              expected |-> ParseOrRaw(tc.expected), line |-> i,
                              userInputs |-> <<>>]))

\* the result runCustomTests pushes for programTest once the engine has
\* resolved to executionResult
ProgramCaseResult(programTest, executionResult, executionTime) ==
  LET actualOutput == Trim(executionResult.output)
      expectedOutput == Trim(programTest.expectedOutput)
      testCase == [name |-> programTest.name,
                   input |-> <<VStr(RawString(OrElse(programTest.programInputs,
                                                     <<"no", "input">>)))>>,
                   expected |-> VStr(RawString(expectedOutput)),
                   functionName |-> "program", line |-> programTest.line,
                   userInputs |-> <<>>]
  IN TestExecutionResult(testCase, actualOutput = expectedOutput, TRUE,
                         VStr(RawString(actualOutput)), FALSE, <<>>, executionTime,
                         executionResult.output)

\* ------------------------------------------------------------------------
\* State
\* ------------------------------------------------------------------------
VARIABLES
  customTestCases, \* ExecutionPanel: the custom test cases it ran
  currentLanguage, \* ExecutionPanel: the language selected when it ran them
  argInput,      \* a test wrapper: testCase.input
  argLanguage,   \* "none", or the language whose wrapper was made
  argText,       \* the text the wrapper puts between the parentheses
  argPassed,     \* what the call passes: ok (it compiles and evaluates) and
                 \* the argument values
  cmpActual,     \* comparator: the first argument
  cmpExpected,   \* comparator: the second argument
  cmpResult,     \* comparator: "pending", or the returned boolean
  cmpSwapped,    \* comparator: the result with the arguments exchanged
  cmpBy,         \* comparator: which class's compareValues ran
  now,           \* performance.now() / Date.now(), in milliseconds
  sbPc,          \* SandboxEngine.executeCode: "idle", "running" (the snippet
                 \* occupies the thread), "awaiting" / "settled" (suspended at
                 \* the await, the promise pending / settled), "done"
  sbCode,        \* the snippet being executed
  sbIdx,         \* how many of its console calls have run
  sbSpin,        \* the parity of the iterations of its endless loop
  consoleOutputs,\* executeCode's consoleOutputs array
  timerArmed,    \* the setTimeout of runInSandbox is registered, not cleared
  timerDue,      \* the time from which its callback may run
  sbStart,       \* executeCode's startTime
  sbPromise,     \* the promise returned by runInSandbox
  sbResult,      \* the ExecutionResult executeCode resolved to
  mlPc,          \* MultiLanguageEngine.executeCode: "idle", "blocked" (the
                 \* snippet occupies the thread for ever), "local" (the local
                 \* run has resolved), "fetching", "responded", "done"
  mlLanguage,    \* its language argument
  mlCode,        \* its code argument
  mlStart,       \* its startTime
  mlRequest,     \* the body of the request sent to the execution service
  mlResponse,    \* the answer to the fetch
  mlResult,      \* the LanguageExecutionResult it resolved to
  tsPc,          \* a suite run: "idle", "loop" (between two cases), "case"
                 \* (suspended at the await of a case), "done"
  tsKind,        \* the loop that runs: "javascript" (executeTestSuite),
                 \* "language" (runTestsWithLanguage), "program" (runCustomTests)
  tsCode,        \* the user code
  tsLanguage,    \* the language argument
  tsCases,       \* the test cases the loop iterates over
  tsTaken,       \* how many of them the loop has taken
  tsResults,     \* the results array
  tsCaseStart,   \* startTime of the case in flight
  tsSuiteStart,  \* suiteStartTime
  tsSuite,       \* the TestSuiteResult returned
  psPc,          \* TestCaseParser.parseTestCases: "idle", "scan", "done"
  psCode,        \* the lines of its code argument
  psI,           \* the number of the line the loop is at
  psTry,         \* parseTestCaseLine: the position in parsers of the grammar
                 \* to call next on that line
  psTestCases,   \* the testCases array
  psErrors,      \* the errors array
  psTestIndex,   \* testIndex
  psResult,      \* the ParseResult returned
  psCalls,       \* how many times parseTestCases was called on the code
  psPrev,        \* the ParseResult of the call before
  roomClients,   \* server.js: the sockets that joined the room
  panelTestCases,  \* of each user, customTestCases of the ExecutionPanel
  sharedTestCases, \* of each user, sharedTestCases of the EditorPage
  renderedTestCases, \* of each user, the customTestCases of the last render,
                 \* which is the list on the page
  sameArray,     \* of each user, whether the two states hold the same array
  stale,         \* of each user, the effect dependencies that changed since
                 \* the effects last ran
  toServer,      \* of each user, the events the socket emitted that the
                 \* server has not handled yet
  toClient,      \* of each user, the events the server emitted to the socket
                 \* that the client has not handled yet
  roomEdits,     \* how many test cases the users added or removed so far
  fcCode,        \* CodeRunner.runTests / runTestsWithLanguage: the lines of
                 \* the code argument
  fcGiven,       \* whether the testCases argument was supplied
  fcTestCases,   \* the testCases argument when supplied
  sockets,       \* server.js: io.sockets.sockets, the ids of the connected
                 \* sockets
  everConnected, \* the socket ids that were given out so far
  adapterRooms,  \* io.sockets.adapter.rooms: of each room id, the ids of
                 \* the sockets that joined it
  userSocketMap, \* server.js: userSocketMap, from socket id to username
  roomUserMap,   \* server.js: roomUserMap, from room id to the map from
                 \* username to socket id
  emitted,       \* the events the handler that ran last sent, in order
  serverFault,   \* "none", or the error that a handler threw
  editorPage,    \* of each socket id, the EditorPage that owns the socket:
                 \* its roomId and username, or NoPage
  codeRef,       \* EditorPage: codeRef.current
  bootTimer,     \* EditorPage: the setTimeout of 500 ms is pending
  outbox,        \* of each socket, the events it emitted that the server has
                 \* not handled yet
  inbox,         \* of each socket, the events sent to it that its listeners
                 \* have not handled yet
  joinSeq        \* the sockets of the pages in the order the server let them
                 \* into their rooms

cmpVars == <<cmpActual, cmpExpected, cmpResult, cmpSwapped, cmpBy>>

mlVars == <<mlPc, mlLanguage, mlCode, mlStart, mlRequest, mlResponse, mlResult>>

sbVars ==
  <<sbPc, sbCode, sbIdx, sbSpin, consoleOutputs, timerArmed, timerDue, sbStart,
    sbPromise, sbResult>>

tsVars ==
  <<tsPc, tsKind, tsCode, tsLanguage, tsCases, tsTaken, tsResults, tsCaseStart,
    tsSuiteStart, tsSuite>>

psVars ==
  <<psPc, psCode, psI, psTry, psTestCases, psErrors, psTestIndex, psResult, psCalls,
    psPrev>>

argVars == <<argInput, argLanguage, argText, argPassed>>

pnVars == <<customTestCases, currentLanguage>>

rmVars ==
  <<roomClients, panelTestCases, sharedTestCases, renderedTestCases, sameArray, stale,
    toServer, toClient, roomEdits>>

fcVars == <<fcCode, fcGiven, fcTestCases>>

coVars ==
  <<sockets, everConnected, adapterRooms, userSocketMap, roomUserMap, emitted,
    serverFault, editorPage, codeRef, bootTimer, outbox, inbox, joinSeq>>

vars == <<cmpVars, now, sbVars, mlVars, tsVars, psVars, argVars, pnVars, rmVars, fcVars, coVars>>

\* what the steps of one component leave alone
CmpRest == <<now, sbVars, mlVars, tsVars, psVars, argVars, pnVars, rmVars, fcVars, coVars>>

SbRest == <<cmpVars, mlVars, tsVars, psVars, argVars, pnVars, rmVars, fcVars, coVars>>

MlRest == <<cmpVars, sbVars, tsVars, psVars, argVars, pnVars, rmVars, fcVars, coVars>>

TsRest == <<cmpVars, psVars, argVars, pnVars, rmVars, fcVars, coVars>>

PsRest == <<cmpVars, now, sbVars, mlVars, tsVars, argVars, pnVars, rmVars, fcVars, coVars>>

ArgRest == <<cmpVars, now, sbVars, mlVars, tsVars, psVars, pnVars, rmVars, fcVars, coVars>>

\* ------------------------------------------------------------------------
\* Each component before it is used
\* ------------------------------------------------------------------------
FcIdle ==
  /\ fcCode = <<>>
  /\ fcGiven = FALSE
  /\ fcTestCases = <<>>

SocketIds == {"s1", "s2", "s3"}

RoomIds == {"r1", "r2"}

\* an object without a property
NoMap == [k \in {} |-> ""]

NoPage == [roomId |-> "", username |-> "", open |-> FALSE, lang |-> "", mountLang |-> ""]

\* the server as it starts and the browsers before a page is opened
CoIdle ==
  /\ sockets = {}
  /\ everConnected = {}
  /\ adapterRooms = [r \in RoomIds |-> {}]
  /\ userSocketMap = NoMap
  /\ roomUserMap = NoMap
  /\ emitted = <<>>
  /\ serverFault = "none"
  /\ editorPage = [s \in SocketIds |-> NoPage]
  /\ codeRef = [s \in SocketIds |-> ""]
  /\ bootTimer = [s \in SocketIds |-> FALSE]
  /\ outbox = [s \in SocketIds |-> <<>>]
  /\ inbox = [s \in SocketIds |-> <<>>]
  /\ joinSeq = <<>>

RoomUsers == {"u1", "u2"}

RmIdle ==
  /\ roomClients = {}
  /\ panelTestCases = [u \in RoomUsers |-> <<>>]
  /\ sharedTestCases = [u \in RoomUsers |-> <<>>]
  /\ renderedTestCases = [u \in RoomUsers |-> <<>>]
  /\ sameArray = [u \in RoomUsers |-> FALSE]
  /\ stale = [u \in RoomUsers |-> {}]
  /\ toServer = [u \in RoomUsers |-> <<>>]
  /\ toClient = [u \in RoomUsers |-> <<>>]
  /\ roomEdits = 0

PnIdle ==
  /\ customTestCases = <<>>
  /\ currentLanguage = "javascript"

ArgIdle ==
  /\ argInput = <<>>
  /\ argLanguage = "none"
  /\ argText = <<>>
  /\ argPassed = NoArguments

CmpIdle ==
  /\ cmpActual = VNull
  /\ cmpExpected = VNull
  /\ cmpResult = "pending"
  /\ cmpSwapped = "pending"
  /\ cmpBy = "none"

SbIdle ==
  /\ sbPc = "idle"
  /\ sbCode = NoSnippet
  /\ sbIdx = 0
  /\ sbSpin = 0
  /\ consoleOutputs = <<>>
  /\ timerArmed = FALSE
  /\ timerDue = 0
  /\ sbStart = 0
  /\ sbPromise = PendingPromise
  /\ sbResult = NoResult

\* the body of a request to the execution service
Request(language, stdin, name, content) ==
  [language |-> language, stdin |-> stdin, name |-> name, content |-> content]

NoRequest == Request("", <<>>, "", NoProgram)

MlIdle ==
  /\ mlPc = "idle"
  /\ mlLanguage = ""
  /\ mlCode = NoProgram
  /\ mlStart = 0
  /\ mlRequest = NoRequest
  /\ mlResponse = NoResponse
  /\ mlResult = NoLanguageResult

NoUserCode == UserCode("ok", <<>>, "absent", "absent", <<>>)

TsIdle ==
  /\ tsPc = "idle"
  /\ tsKind = "none"
  /\ tsCode = NoUserCode
  /\ tsLanguage = ""
  /\ tsCases = <<>>
  /\ tsTaken = 0
  /\ tsResults = <<>>
  /\ tsCaseStart = 0
  /\ tsSuiteStart = 0
  /\ tsSuite = NoSuiteResult

PsIdle ==
  /\ psPc = "idle"
  /\ psCode = <<>>
  /\ psI = 1
  /\ psTry = 1
  /\ psTestCases = <<>>
  /\ psErrors = <<>>
  /\ psTestIndex = 0
  /\ psResult = NoParseResult
  /\ psCalls = 0
  /\ psPrev = NoParseResult

\* ------------------------------------------------------------------------
\* SandboxEngine.executeCode on the JavaScript event loop
\*
\* The snippet runs synchronously inside the executor of runInSandbox's
\* promise: while sbPc = "running" the thread is occupied and no callback
\* (timer or continuation) can run.
\* ------------------------------------------------------------------------
\* executeCode(code) up to the point where the compiled snippet starts to
\* run: startTime, a fresh consoleOutputs, setTimeout, new Function(...).
\* A snippet that does not compile makes new Function throw at once: the
\* catch of runInSandbox clears the timer and rejects.
SbBegin(code) ==
  /\ sbCode' = code
  /\ sbIdx' = 0
  /\ sbSpin' = 0
  /\ consoleOutputs' = <<>>
  /\ sbStart' = now
  /\ sbResult' = NoResult
  /\ timerDue' = now + EXECUTION_TIMEOUT
  /\ IF code.end = "syntax"
     THEN /\ timerArmed' = FALSE
          /\ sbPromise' = [state |-> "rejected", value |-> VUndef, fault |-> code.fault]
          /\ sbPc' = "settled"
     ELSE /\ timerArmed' = TRUE
          /\ sbPromise' = PendingPromise
          /\ sbPc' = "running"

\* safeConsole.log / error / warn / info called by the snippet
SbConsoleCall ==
  /\ sbPc = "running"
  /\ sbIdx < Len(sbCode.logs)
  /\ consoleOutputs' =
       Append(consoleOutputs,
              [type |-> sbCode.logs[sbIdx + 1].type,
               message |-> sbCode.logs[sbIdx + 1].message,
               timestamp |-> now])
  /\ sbIdx' = sbIdx + 1
  /\ UNCHANGED <<sbPc, sbCode, sbSpin, timerArmed, timerDue, sbStart, sbPromise,
                 sbResult, now>>

\* one more iteration of a loop that never ends: the thread stays occupied
SbLoopIteration ==
  /\ sbPc = "running"
  /\ sbIdx = Len(sbCode.logs)
  /\ sbCode.end = "loop"
  /\ sbSpin' = 1 - sbSpin
  /\ UNCHANGED <<sbPc, sbCode, sbIdx, consoleOutputs, timerArmed, timerDue, sbStart,
                 sbPromise, sbResult, now>>

\* the snippet returns or throws: clearTimeout, then resolve(result) or
\* reject(error).  resolve() of a promise that never settles leaves the
\* promise of runInSandbox pending.
SbSnippetEnds ==
  /\ sbPc = "running"
  /\ sbIdx = Len(sbCode.logs)
  /\ sbCode.end \in {"return", "throw", "promise"}
  /\ timerArmed' = FALSE
  /\ sbPromise' =
       IF sbCode.end = "return"
       THEN [state |-> "resolved", value |-> sbCode.value, fault |-> NoFault]
       ELSE IF sbCode.end = "throw"
       THEN [state |-> "rejected", value |-> VUndef, fault |-> sbCode.fault]
       ELSE PendingPromise
  /\ sbPc' = IF sbCode.end = "promise" THEN "awaiting" ELSE "settled"
  /\ UNCHANGED <<sbCode, sbIdx, sbSpin, consoleOutputs, timerDue, sbStart, sbResult, now>>

\* The ExecutionResult that executeCode builds after the await (lines
\* 369-396): the try branch for a resolved promise, the catch branch for a
\* rejected one.
ExecuteCodeResult(promise, outputs, executionTime) ==
  IF promise.state = "resolved"
  THEN [output |-> formatConsoleOutput(outputs, promise.value), error |-> <<>>,
        hasError |-> FALSE, executionTime |-> executionTime, timedOut |-> FALSE]
  ELSE IF InstanceOfError(promise.fault) /\ Includes(promise.fault.message, <<"timeout">>)
  THEN [output |-> formatConsoleOutput(outputs, VUndef), error |-> TimeoutMessage,
        hasError |-> TRUE, executionTime |-> executionTime, timedOut |-> TRUE]
  ELSE [output |-> formatConsoleOutput(outputs, VUndef),
        error |-> formatError(promise.fault),
        hasError |-> TRUE, executionTime |-> executionTime, timedOut |-> FALSE]

\* One turn of the event loop while the thread is free: the continuation of
\* executeCode when the promise has settled, else the timer callback when
\* the timer is still registered and due.
SbEventLoop ==
  /\ sbPc \in {"awaiting", "settled"}
  /\ \/ sbPromise.state # "pending"
     \/ timerArmed /\ now >= timerDue
  /\ IF sbPromise.state # "pending"
     THEN /\ sbResult' = ExecuteCodeResult(sbPromise, consoleOutputs, now - sbStart)
          /\ sbPc' = "done"
          /\ UNCHANGED <<timerArmed, sbPromise>>
     ELSE /\ sbPromise' = [state |-> "rejected", value |-> VUndef,
                           fault |-> Fault("Error", TimerFaultMessage)]
          /\ timerArmed' = FALSE
          /\ sbPc' = "settled"
          /\ UNCHANGED sbResult
  /\ UNCHANGED <<sbCode, sbIdx, sbSpin, consoleOutputs, timerDue, sbStart, now>>

\* time passes, whatever the thread does
Tick ==
  /\ now < MaxTicks * (EXECUTION_TIMEOUT \div 2)
  /\ now' = now + (EXECUTION_TIMEOUT \div 2)

\* The snippets executeCode is called with
SbLogEntries == {LogEntry("log", <<"hello">>), LogEntry("error", <<"oops">>)}

SbLogs == UNION {[1..m -> SbLogEntries] : m \in 0..MaxLogs}

SbValues == {VUndef, VNum(5), VStr("a"), VArr(<<VNum(1)>>)}

FaultKinds == {"SyntaxError", "ReferenceError", "TypeError", "Error", "NonError"}

FaultMessages == {<<"boom">>, <<"x", "is", "not", "defined">>, <<"connection", "timeout">>}

SbFaults == {Fault(kind, m) : kind \in FaultKinds, m \in FaultMessages}

\* the names the typeof snippets refer to
ReferencedNames ==
  {"setTimeout", "setInterval", "fetch", "XMLHttpRequest", "WebSocket", "FileReader",
   "File", "localStorage", "sessionStorage", "process", "window", "global",
   "globalThis", "eval", "Function", "document", "Math"}

Snippets ==
  {Snippet(l, "return", v, NoFault) : l \in SbLogs, v \in SbValues}
  \cup {Snippet(l, "throw", VUndef, f) : l \in SbLogs, f \in SbFaults}
  \cup {Snippet(l, end, VUndef, NoFault) : l \in SbLogs, end \in {"loop", "promise"}}
  \cup {Snippet(<<>>, "syntax", VUndef, Fault("SyntaxError", <<"Unexpected", "token">>))}
  \cup {TypeofSnippet(name) : name \in ReferencedNames}

\* SandboxEngine.executeCode(code), called by the environment
SbExecuteCode ==
  /\ sbPc = "idle"
  /\ \E code \in Snippets : SbBegin(code)
  /\ UNCHANGED now

SbNext ==
  \/ SbExecuteCode /\ UNCHANGED SbRest
  \/ SbConsoleCall /\ UNCHANGED SbRest
  \/ SbLoopIteration /\ UNCHANGED SbRest
  \/ SbSnippetEnds /\ UNCHANGED SbRest
  \/ SbEventLoop /\ UNCHANGED SbRest
  \/ Tick /\ UNCHANGED <<SbRest, sbVars>>

SandboxInit == CmpIdle /\ now = 0 /\ SbIdle /\ MlIdle /\ TsIdle /\ PsIdle /\ ArgIdle /\ PnIdle /\ RmIdle /\ FcIdle /\ CoIdle

SandboxSpec == SandboxInit /\ [][SbNext]_vars

\* The thread runs the snippet, the event loop runs what is ready, and time
\* passes.
SandboxFairSpec ==
  /\ SandboxSpec
  /\ WF_vars(SbConsoleCall /\ UNCHANGED SbRest)
  /\ WF_vars(SbLoopIteration /\ UNCHANGED SbRest)
  /\ WF_vars(SbSnippetEnds /\ UNCHANGED SbRest)
  /\ WF_vars(SbEventLoop /\ UNCHANGED SbRest)
  /\ WF_vars(Tick /\ UNCHANGED <<SbRest, sbVars>>)

\* ------------------------------------------------------------------------
\* MultiLanguageEngine.executeCode on the JavaScript event loop
\* ------------------------------------------------------------------------
\* executeCode(code, language, stdin) up to its first suspension: the local
\* run of a JavaScript snippet (which is synchronous, inside the executor of
\* the promise of runJavaScriptInSandbox), the fetch of callPythonAPI or
\* callJavaAPI, or the result of the default branch.
MlBegin(code, language, stdin) ==
  LET lower == toLowerCase(language)
      remote == lower \in PythonLabels \cup JavaLabels
  IN /\ mlLanguage' = language
     /\ mlCode' = code
     /\ mlStart' = now
     /\ mlResponse' = NoResponse
     /\ mlRequest' =
          IF lower \in PythonLabels THEN Request("python", stdin, "main.py", code)
          ELSE IF lower \in JavaLabels THEN Request("java", stdin, "Main.java", code)
          ELSE NoRequest
     /\ mlResult' =
          IF lower \in JavaScriptLabels \/ remote THEN NoLanguageResult
          ELSE LanguageResult(<<>>, TRUE, UnsupportedMessage(language), now - now,
                              language)
     /\ mlPc' =
          IF lower \in JavaScriptLabels
          THEN (IF Returns(code.js) THEN "local" ELSE "blocked")
          ELSE IF remote THEN "fetching"
          ELSE "done"

\* the execution service, or the network, answers the fetch
MlFetchAnswered(response) ==
  /\ mlPc = "fetching"
  /\ mlResponse' = response
  /\ mlPc' = "responded"
  /\ UNCHANGED <<mlLanguage, mlCode, mlStart, mlRequest, mlResult, now>>

\* the continuation of executeJavaScript, executePython or executeJava,
\* through to the return of executeCode
MlContinue ==
  /\ mlPc \in {"local", "responded"}
  /\ LET r == IF mlPc = "local" THEN runJavaScriptInSandbox(mlCode.js)
              ELSE IF mlRequest.language = "python"
              THEN callPythonAPI(mlCode, mlResponse)
              ELSE callJavaAPI(mlResponse)
         language == IF mlPc = "local" THEN "javascript" ELSE mlRequest.language
     IN mlResult' = LanguageResult(r.output, r.hasError, r.error, now - mlStart,
                                   language)
  /\ mlPc' = "done"
  /\ UNCHANGED <<mlLanguage, mlCode, mlStart, mlRequest, mlResponse, now>>

\* The answers of the model
Stdouts == {<<>>, <<"5">>, <<RESULT_MARKER, "5">>}

Responses ==
  {Response("network", 0, "", <<>>, <<>>, <<>>)}
  \cup {Response("http", status, "", <<>>, <<>>, <<>>) : status \in {401, 403, 500}}
  \cup {Response("http", 200, "invalid", <<>>, <<>>, <<>>)}
  \cup {Response("http", 200, "success", out, err, <<>>) :
          out \in Stdouts, err \in {<<>>, <<"warning">>}}
  \cup {Response("http", 200, "failed", <<>>, err, exc) :
          err \in {<<>>, <<"NameError">>}, exc \in {<<>>, <<"killed">>}}

\* The calls of the model
Languages == {"javascript", "JavaScript", "js", "python", "Python", "py", "java",
              "cobol", "COBOL", "ruby", ""}

PrintLines == {<<"hi">>, <<RESULT_MARKER, "5">>}

Programs ==
  {Program(code, <<>>) : code \in Snippets}
  \cup {Program(NoSnippet, prints) : prints \in SeqsUpTo(PrintLines)}

Stdins == {<<>>, <<"1">>}

\* MultiLanguageEngine.executeCode(code, language, stdin), called by the
\* environment; JavaScript is drawn with the snippets, the other languages
\* with the programs
MlExecuteCode ==
  /\ mlPc = "idle"
  /\ \E code \in Programs, language \in Languages, stdin \in Stdins :
       /\ IF toLowerCase(language) \in JavaScriptLabels THEN code.prints = <<>>
          ELSE code.js = NoSnippet
       /\ MlBegin(code, language, stdin)
  /\ UNCHANGED now

MlNext ==
  \/ MlExecuteCode /\ UNCHANGED MlRest
  \/ (\E response \in Responses : MlFetchAnswered(response)) /\ UNCHANGED MlRest
  \/ MlContinue /\ UNCHANGED MlRest
  \/ Tick /\ UNCHANGED <<MlRest, mlVars>>

RouterInit == CmpIdle /\ now = 0 /\ SbIdle /\ MlIdle /\ TsIdle /\ PsIdle /\ ArgIdle /\ PnIdle /\ RmIdle /\ FcIdle /\ CoIdle

RouterSpec == RouterInit /\ [][MlNext]_vars

\* The event loop runs the continuation that is ready and time passes; when
\* the execution service answers, and whether it does, is up to the service.
RouterFairSpec ==
  /\ RouterSpec
  /\ WF_vars(MlContinue /\ UNCHANGED MlRest)
  /\ WF_vars(Tick /\ UNCHANGED <<MlRest, mlVars>>)

\* ------------------------------------------------------------------------
\* The same snippet in the router and in the sandbox
\* ------------------------------------------------------------------------
InProcessLabels == {"javascript", "JavaScript", "js", "JS"}

\* MultiLanguageEngine.executeCode(code, language) and
\* SandboxEngine.executeCode(code), called with the same code
ExecuteInBoth ==
  /\ mlPc = "idle"
  /\ sbPc = "idle"
  /\ \E code \in Snippets, language \in InProcessLabels :
       /\ SbBegin(code)
       /\ MlBegin(Program(code, <<>>), language, <<>>)
  /\ UNCHANGED <<now, cmpVars, tsVars, psVars, argVars, pnVars, rmVars, fcVars, coVars>>

BothNext ==
  \/ ExecuteInBoth
  \/ SbConsoleCall /\ UNCHANGED SbRest
  \/ SbLoopIteration /\ UNCHANGED SbRest
  \/ SbSnippetEnds /\ UNCHANGED SbRest
  \/ SbEventLoop /\ UNCHANGED SbRest
  \/ MlContinue /\ UNCHANGED MlRest
  \/ Tick /\ UNCHANGED <<SbRest, sbVars>>

BothInit == CmpIdle /\ now = 0 /\ SbIdle /\ MlIdle /\ TsIdle /\ PsIdle /\ ArgIdle /\ PnIdle /\ RmIdle /\ FcIdle /\ CoIdle

BothSpec == BothInit /\ [][BothNext]_vars

\* C21: for the in-process language the router returns the same output,
\* error and timedOut as SandboxEngine.executeCode on the same snippet.
C21_RouterRunsTheSandbox ==
  (mlPc = "done" /\ sbPc = "done")
    => /\ mlResult.output = sbResult.output
       /\ mlResult.hasError = sbResult.hasError
       /\ mlResult.error = sbResult.error
       /\ mlResult.timedOut = sbResult.timedOut

\* ------------------------------------------------------------------------
\* C4: the router and an identifier it has no branch for
\* ------------------------------------------------------------------------
\* the text names the language: one of its words is the language's name,
\* in whatever case
Names(text, language) == \E i \in 1..Len(text) : toLowerCase(text[i]) = language

\* C4: for a language identifier that is not registered, executeCode
\* resolves to a result with empty output, timedOut false, zero elapsed
\* time, and a non-empty error that names every language returned by
\* getSupportedLanguages().
C4_UnsupportedNamesSupportedSet ==
  (/\ mlPc = "done"
   /\ toLowerCase(mlLanguage) \notin JavaScriptLabels \cup PythonLabels \cup JavaLabels)
    => /\ mlResult.output = <<>>
       /\ ~mlResult.timedOut
       /\ mlResult.executionTime = 0
       /\ mlResult.hasError /\ mlResult.error # <<>>
       /\ \A language \in getSupportedLanguages : Names(mlResult.error, language)

\* ------------------------------------------------------------------------
\* C16, C17: the answers of the execution service
\* ------------------------------------------------------------------------
\* C16: when the fetch for Python is rejected by the network, or answered
\* with HTTP 401 or 403, executeCode resolves to what the fallback
\* interpreter makes of the code: its output, and an error only if the
\* fallback has one.
C16_PythonFailureFallsBack ==
  (/\ mlPc = "done"
   /\ mlRequest.language = "python"
   /\ mlResponse.kind = "network" \/ mlResponse.status \in {401, 403})
    => LET fallback == simulatePythonExecution(mlCode)
       IN /\ mlResult.output = fallback.output
          /\ mlResult.hasError = fallback.hasError
          /\ mlResult.error = fallback.error

\* C17: for an answer of the service with a status field, executeCode
\* resolves for status 'success' to the stdout as output and no error, and
\* for any other status to no output and the stderr as error, or else the
\* exception text.
C17_ResponseMappedByStatus ==
  (/\ mlPc = "done"
   /\ mlRequest.language \in {"python", "java"}
   /\ mlResponse.kind = "http" /\ ResponseOk(mlResponse)
   /\ mlResponse.body \in {"success", "failed"})
    => IF mlResponse.body = "success"
       THEN mlResult.output = mlResponse.stdout /\ ~mlResult.hasError
       ELSE /\ mlResult.output = <<>>
            /\ mlResult.hasError
            /\ mlResponse.stderr # <<>> => mlResult.error = mlResponse.stderr
            /\ (mlResponse.stderr = <<>> /\ mlResponse.exception # <<>>)
                 => mlResult.error = mlResponse.exception

\* C18: an executeCode that has sent its request to the execution service
\* resolves, whether or not the service answers.
C18_RemoteDispatchCompletes == (mlPc = "fetching") ~> (mlPc = "done")

\* ------------------------------------------------------------------------
\* Suite runs: TestRunner.executeTestSuite, CodeRunner.runTestsWithLanguage
\* and ExecutionPanel.runCustomTests, over the two engines
\* ------------------------------------------------------------------------
MaxCases == 3

MaxRemoteCases == 2

MaxSuiteTicks == 1

\* a loop that takes the next case without awaiting the previous one
NextCaseReady_NoAwait == tsPc \in {"loop", "case"}

\* the for...of loop is at its head: the await of the previous case, if
\* any, has resumed and its result has been pushed
NextCaseReady == tsPc = "loop"

\* the call of an engine has returned to its caller: its frame is gone
SbReturn ==
  /\ sbPc' = "idle"
  /\ sbCode' = NoSnippet
  /\ sbIdx' = 0
  /\ sbSpin' = 0
  /\ consoleOutputs' = <<>>
  /\ timerArmed' = FALSE
  /\ timerDue' = 0
  /\ sbStart' = 0
  /\ sbPromise' = PendingPromise
  /\ sbResult' = NoResult

MlReturn ==
  /\ mlPc' = "idle"
  /\ mlLanguage' = ""
  /\ mlCode' = NoProgram
  /\ mlStart' = 0
  /\ mlRequest' = NoRequest
  /\ mlResponse' = NoResponse
  /\ mlResult' = NoLanguageResult

\* CodeRunner.runTestsWithLanguage(code, language, testCases) with test
\* cases given, up to the head of the loop: of executeTestSuite (through
\* runTests) for JavaScript, its own for another language
RunTestsWithLanguage(code, language, testCases) ==
  /\ tsCode' = code
  /\ tsLanguage' = language
  /\ tsCases' = testCases
  /\ tsTaken' = 0
  /\ tsResults' = <<>>
  /\ tsCaseStart' = 0
  /\ tsSuiteStart' = now
  /\ tsSuite' = NoSuiteResult
  /\ tsKind' = IF toLowerCase(language) \in JavaScriptLabels THEN "javascript"
               ELSE "language"
  /\ tsPc' = "loop"

\* TestRunner.executeTestSuite takes the next case: executeTestCase up to
\* its await of sandboxEngine.executeCode
TsCaseStart ==
  /\ tsKind = "javascript"
  /\ NextCaseReady
  /\ tsTaken < Len(tsCases)
  /\ tsTaken' = tsTaken + 1
  /\ tsCaseStart' = now
  /\ tsPc' = "case"
  /\ SbBegin(createIsolatedTestCode(tsCode, tsCases[tsTaken + 1]))
  /\ UNCHANGED <<tsKind, tsCode, tsLanguage, tsCases, tsResults, tsSuiteStart, tsSuite>>
  /\ UNCHANGED <<now, TsRest, mlVars>>

\* executeTestCase resumes with the ExecutionResult and returns; the loop
\* pushes the result
TsCaseFinish ==
  /\ tsKind = "javascript"
  /\ tsPc = "case"
  /\ sbPc = "done"
  /\ tsResults' = Append(tsResults,
                         executeTestCase(tsCases[tsTaken], sbResult, now - tsCaseStart))
  /\ tsPc' = "loop"
  /\ SbReturn
  /\ UNCHANGED <<tsKind, tsCode, tsLanguage, tsCases, tsTaken, tsCaseStart,
                 tsSuiteStart, tsSuite>>
  /\ UNCHANGED <<now, TsRest, mlVars>>

\* runTests passes no parse error on to executeTestSuite
RunParseErrors_Dropped == <<>>

\* the parseErrors that runTests passes to executeTestSuite: the errors of
\* parseTestCases when it extracted the test cases, [] when the test cases
\* were given (the extractor was not called)
RunParseErrors == psResult.errors

\* the loop of executeTestSuite is over: the summary
TsSuiteFinish ==
  /\ tsKind = "javascript"
  /\ NextCaseReady
  /\ tsTaken = Len(tsCases)
  /\ tsSuite' = SuiteSummary(tsResults, now - tsSuiteStart, RunParseErrors)
  /\ tsPc' = "done"
  /\ UNCHANGED <<tsKind, tsCode, tsLanguage, tsCases, tsTaken, tsResults, tsCaseStart,
                 tsSuiteStart>>
  /\ UNCHANGED <<now, TsRest, sbVars, mlVars>>

\* the loop of runTestsWithLanguage takes the next case, up to its await of
\* multiLanguageEngine.executeCode
LangCaseStart ==
  /\ tsKind = "language"
  /\ NextCaseReady
  /\ tsTaken < Len(tsCases)
  /\ tsTaken' = tsTaken + 1
  /\ tsCaseStart' = now
  /\ tsPc' = "case"
  /\ LET testCase == tsCases[tsTaken + 1]
     IN MlBegin(createLanguageTestCode(tsCode, testCase, tsLanguage), tsLanguage,
                StdinFormatted(testCase.userInputs))
  /\ UNCHANGED <<tsKind, tsCode, tsLanguage, tsCases, tsResults, tsSuiteStart, tsSuite>>
  /\ UNCHANGED <<now, TsRest, sbVars>>

\* the loop resumes with the LanguageExecutionResult and pushes the result
LangCaseFinish ==
  /\ tsKind = "language"
  /\ tsPc = "case"
  /\ mlPc = "done"
  /\ tsResults' = Append(tsResults,
                         LanguageCaseResult(tsCases[tsTaken], mlResult,
                                            now - tsCaseStart))
  /\ tsPc' = "loop"
  /\ MlReturn
  /\ UNCHANGED <<tsKind, tsCode, tsLanguage, tsCases, tsTaken, tsCaseStart,
                 tsSuiteStart, tsSuite>>
  /\ UNCHANGED <<now, TsRest, sbVars>>

\* the loop of runTestsWithLanguage is over: the summary
LangSuiteFinish ==
  /\ tsKind = "language"
  /\ NextCaseReady
  /\ tsTaken = Len(tsCases)
  /\ tsSuite' = SuiteSummary(tsResults, now - tsSuiteStart, <<>>)
  /\ tsPc' = "done"
  /\ UNCHANGED <<tsKind, tsCode, tsLanguage, tsCases, tsTaken, tsResults, tsCaseStart,
                 tsSuiteStart>>
  /\ UNCHANGED <<now, TsRest, sbVars, mlVars>>

\* the loop of runCustomTests takes the next program test, up to its await
\* of codeRunner.executeCodeWithLanguage
ProgCaseStart ==
  /\ tsKind = "program"
  /\ NextCaseReady
  /\ tsTaken < Len(tsCases)
  /\ tsTaken' = tsTaken + 1
  /\ tsCaseStart' = now
  /\ tsPc' = "case"
  /\ MlBegin(Program(NoSnippet, tsCode.prints), tsLanguage,
             tsCases[tsTaken + 1].programInputs)
  /\ UNCHANGED <<tsKind, tsCode, tsLanguage, tsCases, tsResults, tsSuiteStart, tsSuite>>
  /\ UNCHANGED <<now, TsRest, sbVars>>

\* the loop resumes with the LanguageExecutionResult and pushes the result
ProgCaseFinish ==
  /\ tsKind = "program"
  /\ tsPc = "case"
  /\ mlPc = "done"
  /\ tsResults' = Append(tsResults,
                         ProgramCaseResult(tsCases[tsTaken], mlResult,
                                           now - tsCaseStart))
  /\ tsPc' = "loop"
  /\ MlReturn
  /\ UNCHANGED <<tsKind, tsCode, tsLanguage, tsCases, tsTaken, tsCaseStart,
                 tsSuiteStart, tsSuite>>
  /\ UNCHANGED <<now, TsRest, sbVars>>

\* the loop of runCustomTests is over: the summary
ProgSuiteFinish ==
  /\ tsKind = "program"
  /\ NextCaseReady
  /\ tsTaken = Len(tsCases)
  /\ tsSuite' = ProgramSuiteSummary(tsResults)
  /\ tsPc' = "done"
  /\ UNCHANGED <<tsKind, tsCode, tsLanguage, tsCases, tsTaken, tsResults, tsCaseStart,
                 tsSuiteStart>>
  /\ UNCHANGED <<now, TsRest, sbVars, mlVars>>

\* time passes while a case is in flight
SuiteTick ==
  /\ tsPc = "case"
  /\ now < MaxSuiteTicks * (EXECUTION_TIMEOUT \div 2)
  /\ now' = now + (EXECUTION_TIMEOUT \div 2)

\* The suites of the model
SpoofLog == LogEntry("log", <<RESULT_MARKER, "9">>)

JsUserCodes ==
  {UserCode("syntax", <<>>, "absent", "absent", <<>>)}
  \cup {UserCode("ok", logs, addDef, "first", <<>>) :
          logs \in {<<>>, <<SpoofLog>>}, addDef \in {"sum", "product", "absent"}}
  \cup {UserCode("ok", logs, "sum", fDef, <<>>) :
          logs \in {<<>>, <<SpoofLog>>},
          fDef \in {"undef", "throws", "notfn", "loops"}}

RemoteUserCodes ==
  {UserCode("ok", <<>>, "sum", "first", prints) : prints \in {<<>>, <<<<"5">>>>}}

SuiteCases ==
  {TestCase(<<"Test", "1">>, "add", <<VNum(2), VNum(3)>>, VNum(5), 1),
   TestCase(<<"Test", "2">>, "f", <<VStr("a")>>, VStr("a"), 2),
   TestCase(<<"Test", "3">>, "f", <<>>, VUndef, 3)}

CasesUpTo(n) == UNION {[1..m -> SuiteCases] : m \in 0..n}

RemoteLanguages == {"python", "java", "cobol"}

CustomCases ==
  {CustomTestCase(<<"Test", "1">>, "add", <<"2", ",", "3">>, <<"5">>, <<>>, <<>>),
   CustomTestCase(<<>>, "", <<>>, <<>>, <<"1">>, <<"5">>),
   CustomTestCase(<<"mine">>, "f", <<"a">>, <<Quote("a")>>, <<>>, <<"hi">>)}

CustomSuites == UNION {[1..m -> CustomCases] : m \in 1..MaxRemoteCases}

\* codeRunner.runTestsWithLanguage(code, language, testCases), called by
\* the environment
SuiteRunTests ==
  /\ tsPc = "idle"
  /\ \/ \E code \in JsUserCodes, language \in {"javascript", "JS"},
           testCases \in CasesUpTo(MaxCases) :
           RunTestsWithLanguage(code, language, testCases)
     \/ \E code \in RemoteUserCodes, language \in RemoteLanguages,
           testCases \in CasesUpTo(MaxRemoteCases) :
           RunTestsWithLanguage(code, language, testCases)
  /\ UNCHANGED <<now, TsRest, sbVars, mlVars>>

\* ExecutionPanel.runCustomTests with customTestCases and currentLanguage,
\* up to the head of the loop it runs
PanelRunCustomTests ==
  /\ tsPc = "idle"
  /\ \E code \in RemoteUserCodes, cases \in CustomSuites,
        language \in {"javascript", "python", "java"} :
       /\ customTestCases' = cases
       /\ currentLanguage' = language
       /\ IF language = "python"
          THEN /\ tsCode' = code
               /\ tsLanguage' = language
               /\ tsCases' = ProgramTests(cases, 1, <<>>)
               /\ tsTaken' = 0
               /\ tsResults' = <<>>
               /\ tsCaseStart' = 0
               /\ tsSuiteStart' = now
               /\ tsSuite' = NoSuiteResult
               /\ tsKind' = "program"
               /\ tsPc' = "loop"
          ELSE RunTestsWithLanguage(code, language, FunctionTests(cases, 1, <<>>))
  /\ UNCHANGED <<now, cmpVars, psVars, argVars, sbVars, mlVars, rmVars, fcVars, coVars>>

SuiteResponses ==
  {r \in Responses :
     \/ r.kind = "network"
     \/ r.status \in {401, 500}
     \/ r.body = "success" /\ r.stderr = <<>> /\ r.stdout # <<>>
     \/ r.body = "failed" /\ r.stderr # <<>> /\ r.exception = <<>>}

SuiteNext ==
  \/ SuiteRunTests
  \/ PanelRunCustomTests
  \/ TsCaseStart
  \/ TsCaseFinish
  \/ TsSuiteFinish
  \/ LangCaseStart
  \/ LangCaseFinish
  \/ LangSuiteFinish
  \/ ProgCaseStart
  \/ ProgCaseFinish
  \/ ProgSuiteFinish
  \/ SbConsoleCall /\ UNCHANGED SbRest
  \/ SbLoopIteration /\ UNCHANGED SbRest
  \/ SbSnippetEnds /\ UNCHANGED SbRest
  \/ SbEventLoop /\ UNCHANGED SbRest
  \/ (\E response \in SuiteResponses : MlFetchAnswered(response)) /\ UNCHANGED MlRest
  \/ MlContinue /\ UNCHANGED MlRest
  \/ SuiteTick /\ UNCHANGED <<TsRest, sbVars, mlVars, tsVars>>

SuiteInit == CmpIdle /\ now = 0 /\ SbIdle /\ MlIdle /\ TsIdle /\ PsIdle /\ ArgIdle /\ PnIdle /\ RmIdle /\ FcIdle /\ CoIdle

SuiteSpec == SuiteInit /\ [][SuiteNext]_vars

\* ------------------------------------------------------------------------
\* C2, C5, C8: suite runs
\* ------------------------------------------------------------------------
\* C2: every TestSuiteResult returned, by executeTestSuite (and runTests
\* through it), by the loop of runTestsWithLanguage and by the program tests
\* of the panel, has passedTests + failedTests = totalTests = the number of
\* its results.
C2_CountsAddUp ==
  tsPc = "done" =>
    /\ tsSuite.passedTests + tsSuite.failedTests = tsSuite.totalTests
    /\ tsSuite.totalTests = Len(tsSuite.results)

\* a suite returned with a passing, a failing and a faulting case
C2_Witness ==
  /\ tsPc = "done"
  /\ tsKind = "javascript"
  /\ \E i, j, k \in 1..Len(tsSuite.results) :
       /\ tsSuite.results[i].passed
       /\ ~tsSuite.results[j].passed /\ tsSuite.results[j].hasActual
       /\ tsSuite.results[k].hasError
  /\ tsSuite.passedTests = 1
  /\ tsSuite.failedTests = 2

\* C5: when the function a test case calls returns normally, the result of
\* the case has actual equal to the value the function returned, and passed
\* true exactly when that value equals expected.
C5_ActualIsReturnValue ==
  tsKind = "javascript" =>
    \A i \in 1..Len(tsResults) :
      LET testCase == tsCases[i]
          def == DefOf(tsCode, testCase.functionName)
          value == ReturnValue(def, testCase.input)
      IN (tsCode.top = "ok" /\ def \in {"sum", "product", "first", "undef"})
           => /\ tsResults[i].hasActual
              /\ tsResults[i].actual = value
              /\ tsResults[i].passed = compareValues(value, testCase.expected)

\* the sentences a refined error is expected to be, naming functionName
NotDefinedSentence(functionName) ==
  <<"Function", Quote(functionName), "is", "not", "defined", ".", "Make", "sure",
    "you've", "implemented", "the", "function", ".">>

NotAFunctionSentence(functionName) ==
  <<Quote(functionName), "exists", "but", "is", "not", "a", "function", ".", "Check",
    "your", "implementation", ".">>

TimedOutSentence(functionName) ==
  <<"Test", "case", "timed", "out", ".", "The", "function", Quote(functionName), "may",
    "have", "an", "infinite", "loop", "or", "be", "too", "slow", ".">>

\* C24: the error of a failed case is the sentence of its fault category: the
\* 'is not defined' sentence when functionName is not bound, the 'exists but
\* is not a function' sentence when it is bound to something that is not a
\* function, the 'Test case timed out' sentence for the text the sandbox
\* gives an execution that timed out; the text of any other fault is the
\* text the sandbox reported.
C24_ErrorNamesTheFaultCategory ==
  tsKind = "javascript" =>
    \A i \in 1..Len(tsResults) :
      LET testCase == tsCases[i]
          def == DefOf(tsCode, testCase.functionName)
          error == tsResults[i].error
      IN (tsCode.top = "ok" /\ tsResults[i].hasError) =>
           /\ def = "absent" => error = NotDefinedSentence(testCase.functionName)
           /\ def = "notfn" => error = NotAFunctionSentence(testCase.functionName)
           /\ def = "throws" => error = formatError(Fault("Error", <<"boom">>))
           /\ formatTestError(TimeoutMessage, testCase)
                = TimedOutSentence(testCase.functionName)

\* the actual of a case whose function returns value when the user code
\* writes nothing to the console: the only line is the one the test snippet
\* writes
QuietActual(value) ==
  extractTestResult(
    formatConsoleOutput(<<[type |-> "log", message |-> ResultLog(value).message,
                           timestamp |-> 0]>>, VUndef))

\* C25: when a case completes without a fault, its actual and passed are
\* those of the same case run on user code that writes nothing to the
\* console, whatever the user code writes, lines holding '__TEST_RESULT__:'
\* included.
C25_ConsoleLinesDoNotChangeActual ==
  tsKind = "javascript" =>
    \A i \in 1..Len(tsResults) :
      LET testCase == tsCases[i]
          def == DefOf(tsCode, testCase.functionName)
          quiet == QuietActual(ReturnValue(def, testCase.input))
      IN (tsCode.top = "ok" /\ def \in {"sum", "product", "first", "undef"}
          /\ ~tsResults[i].hasError)
           => /\ tsResults[i].actual = quiet
              /\ tsResults[i].passed = compareValues(quiet, testCase.expected)

\* C8: a suite run, of the JavaScript suite or of the per-language loop,
\* takes case i+1 only after the result of case i has been pushed, produces
\* one result per case, and produces them in the order of the cases.
C8_OneCaseAtATime ==
  tsKind \in {"javascript", "language"} =>
    /\ tsTaken = Len(tsResults) + (IF tsPc = "case" THEN 1 ELSE 0)
    /\ \A i \in 1..Len(tsResults) : tsResults[i].testCase = tsCases[i]
    /\ tsPc = "done" => /\ tsSuite.results = tsResults
                        /\ Len(tsResults) = Len(tsCases)

\* the per-language loop returned after two different cases
C8_Witness ==
  /\ tsPc = "done"
  /\ tsKind = "language"
  /\ Len(tsCases) = 2
  /\ tsCases[1] # tsCases[2]
  /\ tsSuite.results[1].testCase = tsCases[1]
  /\ tsSuite.results[2].testCase = tsCases[2]
  /\ tsSuite.results[1].passed

\* ------------------------------------------------------------------------
\* C19: the custom test cases of the I/O-style languages
\* ------------------------------------------------------------------------
\* the custom test cases that have an expected output, by position
OutputCases ==
  SelectSeq([i \in 1..Len(customTestCases) |-> i],
            LAMBDA i : customTestCases[i].expectedOutput # <<>>)

\* C19: when the panel has run its custom test cases with Python or Java
\* selected, the suite has one result for each custom test case that has an
\* expected output, in order, made by running the program (functionName
\* 'program', the program inputs as input), and the result is passed
\* exactly when the trimmed output of the run equals the trimmed expected
\* output.
C19_ProgramTestPerOutputCase ==
  (tsPc = "done" /\ customTestCases # <<>> /\ currentLanguage \in {"python", "java"})
    => /\ Len(tsSuite.results) = Len(OutputCases)
       /\ \A k \in 1..Len(tsSuite.results) :
            LET result == tsSuite.results[k]
                tc == customTestCases[OutputCases[k]]
            IN /\ result.testCase.functionName = "program"
               /\ result.testCase.line = OutputCases[k]
               /\ result.passed = (Trim(result.output) = Trim(tc.expectedOutput))

\* ------------------------------------------------------------------------
\* TestCaseParser.parseTestCases
\* ------------------------------------------------------------------------
MaxLines == 3

MaxCalls == 2

\* testIndex counts every comment line that was parsed, with or without a
\* test case
NextTestIndex_PerLine(testIndex, produced) == testIndex + 1

\* testIndex++ when the line produced a test case
NextTestIndex(testIndex, produced) == IF produced THEN testIndex + 1 ELSE testIndex

\* the entry of parseTestCases(code): empty arrays, testIndex 0, the loop
\* at the first line
ParseBegin(code) ==
  /\ psCode' = code
  /\ psI' = 1
  /\ psTry' = 1
  /\ psTestCases' = <<>>
  /\ psErrors' = <<>>
  /\ psTestIndex' = 0
  /\ psResult' = NoParseResult
  /\ psPc' = "scan"

\* the line is a comment with content: parseTestCaseLine is called on it
HasTestLine(line) == isCommentLine(Trim(line)) /\ Trim(extractCommentContent(Trim(line))) # <<>>

\* the loop passes a line that is no comment, or a comment without content
ParseSkipLine ==
  /\ psPc = "scan"
  /\ psI <= Len(psCode)
  /\ ~HasTestLine(psCode[psI])
  /\ psI' = psI + 1
  /\ UNCHANGED <<psPc, psCode, psTry, psTestCases, psErrors, psTestIndex, psResult,
                 psCalls, psPrev>>

\* parseTestCaseLine calls the next grammar on the line: a test case ends
\* the line, null or an exception passes to the grammar after it, and after
\* the last grammar the line is recorded as an error
ParseTryGrammar ==
  /\ psPc = "scan"
  /\ psI <= Len(psCode)
  /\ HasTestLine(psCode[psI])
  /\ LET testLine == extractCommentContent(Trim(psCode[psI]))
         r == CallParser(parsers[psTry], testLine, psTestIndex, psI)
         last == psTry = Len(parsers)
         produced == r.status = "testCase"
     IN /\ psTestCases' = IF produced THEN Append(psTestCases, r.testCase)
                          ELSE psTestCases
        /\ psErrors' = IF ~produced /\ last
                       THEN Append(psErrors,
                                   ParseError(psI, <<"Unable", "to", "parse", "test",
                                                     "case", "format">>, testLine))
                       ELSE psErrors
        /\ psTestIndex' = IF produced \/ last THEN NextTestIndex(psTestIndex, produced)
                          ELSE psTestIndex
        /\ psTry' = IF produced \/ last THEN 1 ELSE psTry + 1
        /\ psI' = IF produced \/ last THEN psI + 1 ELSE psI
  /\ UNCHANGED <<psPc, psCode, psResult, psCalls, psPrev>>

\* the loop is over: return { testCases, errors }
ParseReturn ==
  /\ psPc = "scan"
  /\ psI > Len(psCode)
  /\ psResult' = ParseResult(psTestCases, psErrors)
  /\ psPc' = "done"
  /\ UNCHANGED <<psCode, psI, psTry, psTestCases, psErrors, psTestIndex, psCalls, psPrev>>

\* The sources of the model
SourceLines ==
  {<<"//", "add", "(", "[", "1", ",", "2", "]", ",", "3", ")">>,
   <<"//", "add", "(", "2", ",", "3", ")", "=>", "5">>,
   <<"//", "assert", "(", "add", "(", "2", ",", "3", ")", "===", "5", ")">>,
   <<"//", "add", "(", "[", "x", "]", ",", "1", ")", "=>", "3">>,
   <<"//", "add", "(", "[", "1", "]", ",", "2", ")", "=>", "3">>,
   <<"//", "not", "a", "real", "test">>,
   <<"/**">>,
   <<"*/">>,
   <<"function", "add", "(", "a", ",", "b", ")", "{">>,
   <<"//">>,
   <<"*", "f", "(", Quote("a"), ")", "=>", "'a'">>,
   <<"/*", "f", "(", ")", "=>", "undefined", "*/">>}

Sources == UNION {[1..m -> SourceLines] : m \in 0..MaxLines}

\* parseTestCases(code), called by the environment on a new source
ParseTestCases ==
  /\ psPc = "idle"
  /\ \E code \in Sources : ParseBegin(code)
  /\ psCalls' = 1
  /\ psPrev' = NoParseResult

\* parseTestCases(code), called again on the same source
ParseTestCasesAgain ==
  /\ psPc = "done"
  /\ psCalls < MaxCalls
  /\ ParseBegin(psCode)
  /\ psCalls' = psCalls + 1
  /\ psPrev' = psResult

ParserNext ==
  \/ ParseTestCases /\ UNCHANGED PsRest
  \/ ParseTestCasesAgain /\ UNCHANGED PsRest
  \/ ParseSkipLine /\ UNCHANGED PsRest
  \/ ParseTryGrammar /\ UNCHANGED PsRest
  \/ ParseReturn /\ UNCHANGED PsRest

ParserInit == CmpIdle /\ now = 0 /\ SbIdle /\ MlIdle /\ TsIdle /\ PsIdle /\ ArgIdle /\ PnIdle /\ RmIdle /\ FcIdle /\ CoIdle

ParserSpec == ParserInit /\ [][ParserNext]_vars

\* ------------------------------------------------------------------------
\* CodeRunner.runTests(code): the test cases are extracted from the code
\* ------------------------------------------------------------------------
MaxFacadeLines == 3

\* runTests(code) with testCases undefined, up to the call of
\* testCaseParser.parseTestCases(code).  The code is its lines, which the
\* extractor reads, and what it declares, which the sandbox runs.
FacadeRunTests(lines, userCode) ==
  /\ tsPc = "idle"
  /\ psPc = "idle"
  /\ ParseBegin(lines)
  /\ psCalls' = 1
  /\ psPrev' = NoParseResult
  /\ tsCode' = userCode
  /\ tsPc' = "parse"
  /\ fcCode' = lines
  /\ fcGiven' = FALSE
  /\ fcTestCases' = <<>>
  /\ UNCHANGED <<tsKind, tsLanguage, tsCases, tsTaken, tsResults, tsCaseStart,
                 tsSuiteStart, tsSuite>>
  /\ UNCHANGED <<cmpVars, now, sbVars, mlVars, argVars, pnVars, rmVars, coVars>>

\* parseTestCases returned: finalTestCases and parseErrors are its test
\* cases and errors, and executeTestSuite starts
FacadeExecuteTestSuite ==
  /\ tsPc = "parse"
  /\ psPc = "done"
  /\ RunTestsWithLanguage(tsCode, "javascript", psResult.testCases)
  /\ UNCHANGED <<now, TsRest, sbVars, mlVars>>

\* The codes of the model: comments of each kind around a declaration
FacadeLines ==
  {<<"//", "add", "(", "[", "1", ",", "2", "]", ",", "3", ")">>,
   <<"//", "add", "(", "2", ",", "3", ")", "=>", "5">>,
   <<"//", "not", "a", "real", "test">>,
   <<"function", "add", "(", "a", ",", "b", ")", "{">>,
   <<"*", "f", "(", Quote("a"), ")", "=>", "'a'">>}

FacadeSources == UNION {[1..m -> FacadeLines] : m \in 0..MaxFacadeLines}

FacadeUserCodes ==
  {UserCode("syntax", <<>>, "absent", "absent", <<>>),
   UserCode("ok", <<>>, "sum", "first", <<>>),
   UserCode("ok", <<>>, "product", "first", <<>>),
   UserCode("ok", <<>>, "sum", "throws", <<>>),
   UserCode("ok", <<>>, "sum", "loops", <<>>)}

FacadeNext ==
  \/ \E lines \in FacadeSources, userCode \in FacadeUserCodes :
       FacadeRunTests(lines, userCode)
  \/ ParseSkipLine /\ UNCHANGED PsRest
  \/ ParseTryGrammar /\ UNCHANGED PsRest
  \/ ParseReturn /\ UNCHANGED PsRest
  \/ FacadeExecuteTestSuite
  \/ TsCaseStart
  \/ TsCaseFinish
  \/ TsSuiteFinish
  \/ SbConsoleCall /\ UNCHANGED SbRest
  \/ SbLoopIteration /\ UNCHANGED SbRest
  \/ SbSnippetEnds /\ UNCHANGED SbRest
  \/ SbEventLoop /\ UNCHANGED SbRest
  \/ SuiteTick /\ UNCHANGED <<TsRest, sbVars, mlVars, tsVars>>

FacadeInit == CmpIdle /\ now = 0 /\ SbIdle /\ MlIdle /\ TsIdle /\ PsIdle /\ ArgIdle /\ PnIdle /\ RmIdle /\ FcIdle /\ CoIdle

FacadeSpec == FacadeInit /\ [][FacadeNext]_vars

\* ------------------------------------------------------------------------
\* C12: extraction faults and the suite
\* ------------------------------------------------------------------------
\* C12: when runTests(code) extracted the test cases itself, the suite
\* result it returns has one result for every extracted test case, in
\* order, its parseErrors are all the errors of the extraction, and
\* hasParseErrors is true exactly when parseErrors is not empty.
C12_ParsedCasesRunErrorsReported ==
  (tsPc = "done" /\ psPc = "done") =>
    /\ Len(tsSuite.results) = Len(psResult.testCases)
    /\ \A i \in 1..Len(tsSuite.results) :
         tsSuite.results[i].testCase = psResult.testCases[i]
    /\ tsSuite.parseErrors = psResult.errors
    /\ tsSuite.hasParseErrors = (Len(tsSuite.parseErrors) > 0)

\* a returned suite with a passed case after an unparseable comment
C12_Witness ==
  /\ tsPc = "done"
  /\ psPc = "done"
  /\ Len(tsSuite.results) = 2
  /\ tsSuite.results[2].passed
  /\ Len(tsSuite.parseErrors) = 1
  /\ tsSuite.parseErrors[1].line = 1
  /\ tsSuite.parseErrors[1].originalText = <<"not", "a", "real", "test">>
  /\ tsSuite.hasParseErrors

\* ------------------------------------------------------------------------
\* The facade with and without a list of test cases
\* ------------------------------------------------------------------------
MaxChoiceLines == 2

MaxGiven == 2

\* runTests as it would be if an empty list counted as no list
FacadeRunTestsGiven_EmptyIsAbsent(lines, userCode, testCases) ==
  /\ tsPc = "idle"
  /\ psPc = "idle"
  /\ fcCode' = lines
  /\ fcGiven' = TRUE
  /\ fcTestCases' = testCases
  /\ IF testCases # <<>>
     THEN /\ RunTestsWithLanguage(userCode, "javascript", testCases)
          /\ UNCHANGED psVars
     ELSE /\ ParseBegin(lines)
          /\ psCalls' = 1
          /\ psPrev' = NoParseResult
          /\ tsCode' = userCode
          /\ tsPc' = "parse"
          /\ UNCHANGED <<tsKind, tsLanguage, tsCases, tsTaken, tsResults, tsCaseStart,
                         tsSuiteStart, tsSuite>>
  /\ UNCHANGED <<now, cmpVars, argVars, pnVars, rmVars, sbVars, mlVars, coVars>>

\* runTests(code, testCases) with testCases supplied: an array, empty or
\* not, is truthy, so the parser is not called and parseErrors stays []
FacadeRunTestsGiven(lines, userCode, testCases) ==
  /\ tsPc = "idle"
  /\ psPc = "idle"
  /\ fcCode' = lines
  /\ fcGiven' = TRUE
  /\ fcTestCases' = testCases
  /\ RunTestsWithLanguage(userCode, "javascript", testCases)
  /\ UNCHANGED <<now, cmpVars, psVars, argVars, pnVars, rmVars, sbVars, mlVars, coVars>>

\* runTestsWithLanguage(code, language) for a language that is not
\* JavaScript, without testCases: the test cases are those of
\* multiLanguageEngine.parseTestCases and parseErrors is [].  Beside it
\* TestCaseParser.parseTestCases is started on the same code, for
\* reference.
FacadeRunLanguageTests(lines, userCode, language) ==
  /\ tsPc = "idle"
  /\ psPc = "idle"
  /\ toLowerCase(language) \notin JavaScriptLabels
  /\ fcCode' = lines
  /\ fcGiven' = FALSE
  /\ fcTestCases' = <<>>
  /\ RunTestsWithLanguage(userCode, language, MlParseTestCases(lines, language))
  /\ ParseBegin(lines)
  /\ psCalls' = 1
  /\ psPrev' = NoParseResult
  /\ UNCHANGED <<now, cmpVars, argVars, pnVars, rmVars, sbVars, mlVars, coVars>>

ChoiceLines ==
  {<<"//", "add", "(", "2", ",", "3", ")", "=>", "5">>,
   <<"#", "add", "(", "2", ",", "3", ")", "=>", "5">>,
   <<"//", "add", "(", "[", "2", ",", "3", "]", ",", "5", ")">>,
   <<"//", "not", "a", "real", "test">>}

ChoiceSources == UNION {[1..m -> ChoiceLines] : m \in 0..MaxChoiceLines}

ChoiceUserCodes == {UserCode("ok", <<>>, "sum", "first", <<<<"5">>>>)}

\* the answers of the execution service in these runs
ChoiceResponses == {r \in SuiteResponses : r.kind = "network" \/ r.body = "success"}

ChoiceNext ==
  \/ \E lines \in ChoiceSources, userCode \in ChoiceUserCodes :
       FacadeRunTests(lines, userCode)
  \/ \E lines \in ChoiceSources, userCode \in ChoiceUserCodes,
        testCases \in CasesUpTo(MaxGiven) :
       FacadeRunTestsGiven(lines, userCode, testCases)
  \/ \E lines \in ChoiceSources, userCode \in ChoiceUserCodes,
        language \in {"python", "java"} :
       FacadeRunLanguageTests(lines, userCode, language)
  \/ ParseSkipLine /\ UNCHANGED PsRest
  \/ ParseTryGrammar /\ UNCHANGED PsRest
  \/ ParseReturn /\ UNCHANGED PsRest
  \/ FacadeExecuteTestSuite
  \/ TsCaseStart
  \/ TsCaseFinish
  \/ TsSuiteFinish
  \/ LangCaseStart
  \/ LangCaseFinish
  \/ LangSuiteFinish
  \/ SbConsoleCall /\ UNCHANGED SbRest
  \/ SbSnippetEnds /\ UNCHANGED SbRest
  \/ SbEventLoop /\ UNCHANGED SbRest
  \/ (\E response \in ChoiceResponses : MlFetchAnswered(response)) /\ UNCHANGED MlRest
  \/ MlContinue /\ UNCHANGED MlRest

ChoiceInit ==
  CmpIdle /\ now = 0 /\ SbIdle /\ MlIdle /\ TsIdle /\ PsIdle /\ ArgIdle /\ PnIdle /\ RmIdle /\ FcIdle /\ CoIdle

ChoiceSpec == ChoiceInit /\ [][ChoiceNext]_vars

\* the test cases the suite result reports a result for, in order
CasesRun == [i \in 1..Len(tsSuite.results) |-> tsSuite.results[i].testCase]

\* C22: for a language that is not JavaScript and no test cases supplied,
\* runTestsWithLanguage runs the test cases and reports the parse errors
\* that TestCaseParser.parseTestCases yields for the same code.
C22_ExtractionDelegated ==
  (tsPc = "done" /\ tsKind = "language" /\ psPc = "done")
    => /\ CasesRun = psResult.testCases
       /\ tsSuite.parseErrors = psResult.errors

C9_NamedInOrderAndStable ==
  psPc = "done" =>
    /\ \A k \in 1..Len(psResult.testCases) :
         psResult.testCases[k].name = <<"Test", NumStr(k)>>
    /\ \A k \in 1..(Len(psResult.testCases) - 1) :
         psResult.testCases[k].line < psResult.testCases[k + 1].line
    /\ psCalls > 1 => psResult = psPrev

\* the second call returned, on a source with an unparseable comment
\* between two test cases
C9_Witness ==
  /\ psPc = "done"
  /\ psCalls = 2
  /\ Len(psResult.testCases) = 2
  /\ Len(psResult.errors) = 1
  /\ psResult.testCases[1].line < psResult.errors[1].line
  /\ psResult.errors[1].line < psResult.testCases[2].line
  /\ psResult.testCases[2].name = <<"Test", "2">>
  /\ psResult = psPrev

\* the priority order of the three grammars
GrammarPriority == <<"array", "arrow", "assert">>

Rank(grammar) == CHOOSE h \in 1..3 : GrammarPriority[h] = grammar

\* the content of the comment that is line lineNumber of the source
ContentOf(lineNumber) == extractCommentContent(Trim(psCode[lineNumber]))

\* the grammar is about to be called on the line the loop is at
Consulting(grammar) ==
  /\ psPc = "scan"
  /\ psI <= Len(psCode)
  /\ HasTestLine(psCode[psI])
  /\ parsers[psTry] = grammar

\* the grammar matches the text and parses what it captured
Succeeds(grammar, text) == CallParser(grammar, text, 0, 0).status = "testCase"

\* C10 (as claimed): a grammar is consulted on a line only when the pattern
\* of no grammar of higher priority matches the line, and the test case of
\* a line is the one produced by the first grammar, in priority order,
\* whose pattern matches.
C10_FirstMatchingPatternWins ==
  /\ \A g, h \in {"array", "arrow", "assert"} :
       (Consulting(g) /\ Rank(h) < Rank(g)) => ~Pattern(h, ContentOf(psI)).ok
  /\ \A k \in 1..Len(psTestCases) :
       LET lineNumber == psTestCases[k].line
           matching == {h \in 1..3 : Pattern(GrammarPriority[h], ContentOf(lineNumber)).ok}
       IN /\ matching # {}
          /\ psTestCases[k] =
               CallParser(GrammarPriority[Least(matching)], ContentOf(lineNumber),
                          k - 1, lineNumber).testCase

\* C10 (amended): a grammar is consulted on a line only when every grammar
\* of higher priority either did not match the line or failed to parse what
\* it captured, and the test case of a line is the one produced by the
\* first grammar, in priority order, that matches and parses.
C10_FirstSuccessfulGrammarWins ==
  /\ \A g, h \in {"array", "arrow", "assert"} :
       (Consulting(g) /\ Rank(h) < Rank(g)) => ~Succeeds(h, ContentOf(psI))
  /\ \A k \in 1..Len(psTestCases) :
       LET lineNumber == psTestCases[k].line
           succeeding == {h \in 1..3 : Succeeds(GrammarPriority[h], ContentOf(lineNumber))}
       IN /\ succeeding # {}
          /\ psTestCases[k] =
               CallParser(GrammarPriority[Least(succeeding)], ContentOf(lineNumber),
                          k - 1, lineNumber).testCase

\* a test case produced by the arrow grammar from a line that the array
\* pattern matches, its argument list being no JSON
C10_Witness ==
  \E k \in 1..Len(psTestCases) :
    LET lineNumber == psTestCases[k].line
    IN /\ ArrayPattern(ContentOf(lineNumber)).ok
       /\ parseArrayFormat(ContentOf(lineNumber), k - 1, lineNumber).status = "throw"
       /\ psTestCases[k] =
            parseArrowFormat(ContentOf(lineNumber), k - 1, lineNumber).testCase

\* ------------------------------------------------------------------------
\* C11: one test case or one error for a comment with content
\* ------------------------------------------------------------------------
\* the markers that open, continue and close a comment
CommentMarkers == {"//", "/*", "/**", "*", "*/"}

IsComment(line) == Trim(line) # <<>> /\ Trim(line)[1] \in CommentMarkers

\* the text of a comment line, its markers stripped
CommentText(line) ==
  LET body == Tail(Trim(line))
  IN Trim(IF body # <<>> /\ body[Len(body)] = "*/"
          THEN SubSeq(body, 1, Len(body) - 1)
          ELSE body)

TestCasesOf(lineNumber) ==
  {k \in 1..Len(psResult.testCases) : psResult.testCases[k].line = lineNumber}

ErrorsOf(lineNumber) ==
  {k \in 1..Len(psResult.errors) : psResult.errors[k].line = lineNumber}

\* C11: in the result of parseTestCases, a comment line with non-empty
\* content has exactly one test case or exactly one ParseError, the
\* ParseError of a line carries its 1-based line number and the comment
\* text without its marker, a line that matches no grammar has a
\* ParseError, and a line that is no comment or has no content has
\* neither a test case nor a ParseError.
C11_OneOutcomePerCommentLine ==
  psPc = "done" =>
    \A i \in 1..Len(psCode) :
      IF IsComment(psCode[i]) /\ CommentText(psCode[i]) # <<>>
      THEN /\ Cardinality(TestCasesOf(i)) + Cardinality(ErrorsOf(i)) = 1
           /\ \A k \in ErrorsOf(i) :
                psResult.errors[k].originalText = CommentText(psCode[i])
           /\ (\A g \in {"array", "arrow", "assert"} :
                 ~Pattern(g, CommentText(psCode[i])).ok) => ErrorsOf(i) # {}
      ELSE TestCasesOf(i) = {} /\ ErrorsOf(i) = {}

\* ------------------------------------------------------------------------
\* C1, C3: the contract of SandboxEngine.executeCode
\* ------------------------------------------------------------------------
\* C1: when the snippet is a loop that never ends, and so does not return
\* within the 5000 ms budget, the caller eventually receives a result with
\* timedOut true and the fixed timeout message.
C1_TimeoutEnforced ==
  (sbPc = "running" /\ sbCode.end = "loop")
    ~> (sbPc = "done" /\ sbResult.timedOut /\ sbResult.error = TimeoutMessage)

\* C3: executeCode resolves to a result whose error is defined exactly when
\* the snippet raised a fault (at compile time or at run time), and the
\* error then contains the message of that fault.
C3_ErrorIsTheFaultMessage ==
  sbPc = "done" =>
    LET faulted == sbCode.end \in {"throw", "syntax"}
    IN /\ sbResult.hasError = faulted
       /\ faulted => Includes(sbResult.error, sbCode.fault.message)

\* C13: executeCode reports timedOut only when the snippet itself produced
\* neither a result nor a fault, and a snippet that raised a fault is
\* reported with timedOut false and the error text of the fault's kind,
\* whatever the message of the fault says.
C13_TimedOutOnlyByTheTimer ==
  sbPc = "done" =>
    LET faulted == sbCode.end \in {"throw", "syntax"}
    IN /\ sbResult.timedOut => ~faulted /\ sbCode.end # "return"
       /\ faulted => /\ ~sbResult.timedOut
                     /\ sbResult.error = formatError(sbCode.fault)

\* the ambient host facilities: timers, network, file, storage, process,
\* the global object under its names, dynamic code compilation
AmbientFacilities ==
  {"setTimeout", "setInterval", "fetch", "XMLHttpRequest", "WebSocket", "FileReader",
   "File", "localStorage", "sessionStorage", "process", "window", "global",
   "globalThis", "eval", "Function"}

\* C14: the snippet console.log(typeof name), for every ambient host
\* facility name, runs with no error and writes undefined.
C14_AmbientFacilitiesUndefined ==
  sbPc = "done" =>
    \A name \in AmbientFacilities :
      sbCode = TypeofSnippet(name) =>
        ~sbResult.hasError /\ sbResult.output = <<"undefined">>

\* ------------------------------------------------------------------------
\* The invocation a test wrapper makes
\* ------------------------------------------------------------------------
\* the call line of createIsolatedTestCode (and of the JavaScript branch of
\* createLanguageTestCode), and the arguments it passes when run
JsWrapperCall ==
  /\ argLanguage = "none"
  /\ argLanguage' = "javascript"
  /\ argText' = JsArgumentText(argInput)
  /\ argPassed' = JsArguments(JsArgumentText(argInput))
  /\ UNCHANGED argInput

\* the call line of createPythonTestCode, and the arguments it passes when
\* run
PyWrapperCall ==
  /\ argLanguage = "none"
  /\ argLanguage' = "python"
  /\ argText' = PyArgumentText(argInput)
  /\ argPassed' = PyArguments(PyArgumentText(argInput))
  /\ UNCHANGED argInput

\* The inputs of the model: numbers, a text, a boolean, null, undefined,
\* sequences and an object
ArgValues ==
  {VNum(1), VNum(2), VStr("a"), VBool(TRUE), VNull, VUndef, VArr(<<>>),
   VArr(<<VNum(1), VNum(2)>>), VArr(<<VStr("a")>>), VObj(<<"a">>, <<VNum(1)>>)}

ArgInputs == SeqsUpTo(ArgValues)

ArgInit ==
  /\ argInput \in ArgInputs
  /\ argLanguage = "none"
  /\ argText = <<>>
  /\ argPassed = NoArguments

ArgNext ==
  \/ JsWrapperCall /\ UNCHANGED ArgRest
  \/ PyWrapperCall /\ UNCHANGED ArgRest

WrapperInit ==
  ArgInit /\ CmpIdle /\ now = 0 /\ SbIdle /\ MlIdle /\ TsIdle /\ PsIdle /\ PnIdle /\ RmIdle /\ FcIdle /\ CoIdle

WrapperSpec == WrapperInit /\ [][ArgNext]_vars

\* C15: the invocation of the JavaScript wrapper and of the Python wrapper
\* compiles and passes testCase.input: as many arguments, in the same
\* order, with the same values.
C15_InvocationPassesInput ==
  argLanguage # "none" => argPassed.ok /\ argPassed.args = argInput

\* ------------------------------------------------------------------------
\* The test cases of a room: ExecutionPanel, EditorPage and server.js
\*
\* panelTestCases and sharedTestCases are the states as the next render
\* will find them; a render and the effects after it are one step.  Between
\* two renders a user may act on the page as rendered, and the socket may
\* hand over an event.
\* A test case is written as its name, a list of test cases as the sequence
\* of the names.  Every user has an EditorPage (sharedTestCases) with an
\* ExecutionPanel in it (customTestCases, here panelTestCases) and a socket
\* to the server; socket.io delivers the events of one socket in order.
\* ------------------------------------------------------------------------
RoomCaseNames == {"a", "b"}

MaxRoomCases == 2

MaxInFlight == 1

MaxEdits == 3

JoinedEvent == [type |-> "JOINED", socketId |-> "", testCases |-> <<>>]

TestCasesChange(testCases) ==
  [type |-> "TEST_CASES_CHANGE", socketId |-> "", testCases |-> testCases]

SyncTestCases(socketId, testCases) ==
  [type |-> "SYNC_TEST_CASES", socketId |-> socketId, testCases |-> testCases]

\* the sharedTestCases the JOINED listener reads: the listener is registered
\* by an effect that depends on roomId and username only, so it keeps the
\* state of the render that registered it
ListenerSharedTestCases == <<>>

\* the list without its element at index (Array.prototype.filter on the index)
WithoutIndex(list, index) ==
  IF index > Len(list) THEN list
  ELSE [i \in 1..(Len(list) - 1) |-> IF i < index THEN list[i] ELSE list[i + 1]]

\* the events of the server to the sockets in targets, one more each
EmitTo(targets, event) ==
  [v \in RoomUsers |-> IF v \in targets THEN Append(toClient[v], event) ELSE toClient[v]]

HasRoom(targets) == \A v \in targets : Len(toClient[v]) < MaxInFlight

\* EditorPage emits JOIN on mount; the server adds the socket to the room and
\* emits JOINED to every socket of the room, the new one included
JoinRoom(u) ==
  /\ u \notin roomClients
  /\ HasRoom(roomClients \cup {u})
  /\ roomClients' = roomClients \cup {u}
  /\ toClient' = EmitTo(roomClients \cup {u}, JoinedEvent)
  /\ UNCHANGED <<panelTestCases, sharedTestCases, renderedTestCases, sameArray, stale,
                 toServer, roomEdits>>

\* addCustomTestCase: setCustomTestCases(prev => [...prev, testCase])
addCustomTestCase(u, name) ==
  /\ u \in roomClients
  /\ roomEdits < MaxEdits
  /\ roomEdits' = roomEdits + 1
  /\ Len(panelTestCases[u]) < MaxRoomCases
  /\ panelTestCases' = [panelTestCases EXCEPT ![u] = Append(@, name)]
  /\ sameArray' = [sameArray EXCEPT ![u] = FALSE]
  /\ stale' = [stale EXCEPT ![u] = @ \cup {"customTestCases"}]
  /\ UNCHANGED <<roomClients, sharedTestCases, renderedTestCases, toServer, toClient>>

\* removeCustomTestCase: setCustomTestCases(prev => prev.filter((_, i) => i !== index))
removeCustomTestCase(u, index) ==
  /\ u \in roomClients
  /\ roomEdits < MaxEdits
  /\ roomEdits' = roomEdits + 1
  /\ index \in 1..Len(renderedTestCases[u])   \* the button of a case on the page
  /\ panelTestCases' = [panelTestCases EXCEPT ![u] = WithoutIndex(@, index)]
  /\ sameArray' = [sameArray EXCEPT ![u] = FALSE]
  /\ stale' = [stale EXCEPT ![u] = @ \cup {"customTestCases"}]
  /\ UNCHANGED <<roomClients, sharedTestCases, renderedTestCases, toServer, toClient>>

\* handleCodeChange: setCurrentCode renders the EditorPage again, and every
\* render of it hands a new handleTestCasesChange to the panel
handleCodeChange(u) ==
  /\ u \in roomClients
  /\ "onTestCasesChange" \notin stale[u]
  /\ stale' = [stale EXCEPT ![u] = @ \cup {"onTestCasesChange"}]
  /\ UNCHANGED <<roomClients, panelTestCases, sharedTestCases, renderedTestCases, sameArray,
                  toServer, toClient, roomEdits>>

\* The two effects of the ExecutionPanel after a render, in the order they
\* are declared, each on the state of that render; the states they set are
\* those of the next render.  Setting a state to the array it holds already
\* changes nothing.
RunEffects(u) ==
  LET custom == panelTestCases[u]
      shared == sharedTestCases[u]
      \* useEffect(..., [sharedTestCases])
      syncs == "sharedTestCases" \in stale[u] /\ Len(shared) > 0
      \* useEffect(..., [customTestCases, onTestCasesChange])
      notifies ==
        /\ stale[u] \cap {"customTestCases", "onTestCasesChange"} # {}
        /\ Len(custom) > 0
      setsCustom == syncs /\ ~sameArray[u]
      setsShared == notifies /\ ~sameArray[u]
  IN /\ stale[u] # {}
     /\ notifies => Len(toServer[u]) < MaxInFlight
     /\ renderedTestCases' = [renderedTestCases EXCEPT ![u] = custom]
     /\ panelTestCases' = [panelTestCases EXCEPT ![u] = IF setsCustom THEN shared ELSE custom]
     \* handleTestCasesChange: setSharedTestCases(testCases) and the emit
     /\ sharedTestCases' = [sharedTestCases EXCEPT ![u] = IF setsShared THEN custom ELSE shared]
     /\ toServer' =
          [toServer EXCEPT ![u] = IF notifies THEN Append(@, TestCasesChange(custom)) ELSE @]
     /\ sameArray' = [sameArray EXCEPT ![u] = IF setsCustom = setsShared THEN @ ELSE TRUE]
     /\ stale' =
          [stale EXCEPT ![u] =
            (IF setsCustom THEN {"customTestCases"} ELSE {})
              \cup (IF setsShared THEN {"sharedTestCases", "onTestCasesChange"} ELSE {})]
     /\ UNCHANGED <<roomClients, toClient, roomEdits>>

\* server.js: the listeners of one socket on the event at the head
ServerReceive(u) ==
  /\ toServer[u] # <<>>
  /\ LET event == Head(toServer[u])
         targets ==
           IF event.type = "TEST_CASES_CHANGE"
             THEN roomClients \ {u}   \* socket.in(roomId): all but the sender
             ELSE {event.socketId}    \* io.to(socketId)
     IN /\ HasRoom(targets)
        /\ toClient' = EmitTo(targets, TestCasesChange(event.testCases))
  /\ toServer' = [toServer EXCEPT ![u] = Tail(@)]
  /\ UNCHANGED <<roomClients, panelTestCases, sharedTestCases, renderedTestCases, sameArray,
                 stale, roomEdits>>

\* EditorPage: the listeners of the socket on the event at the head
ClientReceive(u) ==
  /\ toClient[u] # <<>>
  /\ toClient' = [toClient EXCEPT ![u] = Tail(@)]
  /\ LET event == Head(toClient[u])
     IN IF event.type = "JOINED"
          THEN \* setClients(clients), then the sync to the new user
               /\ stale' = [stale EXCEPT ![u] = @ \cup {"onTestCasesChange"}]
               /\ toServer' =
                    [toServer EXCEPT ![u] =
                      IF Len(ListenerSharedTestCases) > 0
                        THEN Append(@, SyncTestCases(u, ListenerSharedTestCases))
                        ELSE @]
               /\ UNCHANGED <<sharedTestCases, sameArray>>
          ELSE \* setSharedTestCases(testCases)
               /\ sharedTestCases' = [sharedTestCases EXCEPT ![u] = event.testCases]
               /\ sameArray' = [sameArray EXCEPT ![u] = FALSE]
               /\ stale' = [stale EXCEPT ![u] = @ \cup {"sharedTestCases", "onTestCasesChange"}]
               /\ UNCHANGED toServer
  /\ UNCHANGED <<roomClients, panelTestCases, renderedTestCases, roomEdits>>

RmRest == <<cmpVars, now, sbVars, mlVars, tsVars, psVars, argVars, pnVars, fcVars, coVars>>

RoomNext ==
  \/ \E u \in RoomUsers : JoinRoom(u) /\ UNCHANGED RmRest
  \/ \E u \in RoomUsers, name \in RoomCaseNames : addCustomTestCase(u, name) /\ UNCHANGED RmRest
  \/ \E u \in RoomUsers, index \in 1..MaxRoomCases :
       removeCustomTestCase(u, index) /\ UNCHANGED RmRest
  \/ \E u \in RoomUsers : handleCodeChange(u) /\ UNCHANGED RmRest
  \/ \E u \in RoomUsers : RunEffects(u) /\ UNCHANGED RmRest
  \/ \E u \in RoomUsers : ServerReceive(u) /\ UNCHANGED RmRest
  \/ \E u \in RoomUsers : ClientReceive(u) /\ UNCHANGED RmRest

RoomInit ==
  CmpIdle /\ now = 0 /\ SbIdle /\ MlIdle /\ TsIdle /\ PsIdle /\ ArgIdle /\ PnIdle /\ RmIdle /\ FcIdle /\ CoIdle

RoomSpec == RoomInit /\ [][RoomNext]_vars

\* React runs the effects of every render, and socket.io hands every event
\* it carries to the listeners of the other side: none of these steps waits
\* for ever.  What the users do is left to them.
RoomFairSpec ==
  /\ RoomSpec
  /\ \A u \in RoomUsers :
       /\ WF_vars(RunEffects(u) /\ UNCHANGED RmRest)
       /\ WF_vars(ServerReceive(u) /\ UNCHANGED RmRest)
       /\ WF_vars(ClientReceive(u) /\ UNCHANGED RmRest)

\* every user of the room has the same list on the page
SameLists == \A u, v \in roomClients : renderedTestCases[u] = renderedTestCases[v]

\* every relayed message has been delivered and handled: no event is on its
\* way and no effect is left to run
Delivered ==
  \A u \in RoomUsers : toServer[u] = <<>> /\ toClient[u] = <<>> /\ stale[u] = {}

\* Where nothing is left to deliver the pages agree.  Once two users of a
\* room have a case, though, the pages never stop sending.
SameListsWhenDelivered == Delivered => SameLists

\* C20: after any sequence of add and remove operations by the users of a
\* room, the removal of the last remaining case included, the relayed
\* messages get delivered and from then on every user of the room holds the
\* same ordered list of test cases.
C20_SameListOnceDelivered == <>[]SameLists

\* ------------------------------------------------------------------------
\* C26: the exchange of a change of the list
\* ------------------------------------------------------------------------
\* The room while nobody types in the editor: the users join and edit their
\* lists, and the pages and the server do the rest.
ExchangeNext ==
  \/ \E u \in RoomUsers : JoinRoom(u) /\ UNCHANGED RmRest
  \/ \E u \in RoomUsers, name \in RoomCaseNames : addCustomTestCase(u, name) /\ UNCHANGED RmRest
  \/ \E u \in RoomUsers, index \in 1..MaxRoomCases :
       removeCustomTestCase(u, index) /\ UNCHANGED RmRest
  \/ \E u \in RoomUsers : RunEffects(u) /\ UNCHANGED RmRest
  \/ \E u \in RoomUsers : ServerReceive(u) /\ UNCHANGED RmRest
  \/ \E u \in RoomUsers : ClientReceive(u) /\ UNCHANGED RmRest

ExchangeSpec == RoomInit /\ [][ExchangeNext]_vars

ExchangeFairSpec ==
  /\ ExchangeSpec
  /\ \A u \in RoomUsers :
       /\ WF_vars(RunEffects(u) /\ UNCHANGED RmRest)
       /\ WF_vars(ServerReceive(u) /\ UNCHANGED RmRest)
       /\ WF_vars(ClientReceive(u) /\ UNCHANGED RmRest)

\* no TEST_CASES_CHANGE is on its way, to the server or to a client
NoneInFlight == \A u \in RoomUsers : toServer[u] = <<>> /\ toClient[u] = <<>>

\* C26: when the list of a room is changed once, the exchange of
\* TEST_CASES_CHANGE messages ends: from some moment on none is in flight.
C26_ExchangeTerminates == [](roomEdits <= 1) => <>[]NoneInFlight

\* ------------------------------------------------------------------------
\* server.js: the rooms of the server
\* ------------------------------------------------------------------------
\* The usernames a JOIN carries; "" is a username that is falsy, as the
\* username of a page that was opened without one is.
Usernames == {"", "ann", "bob"}

RoomCodes == {"boilerplate", "x"}

SocketOrder == <<"s1", "s2", "s3">>

RoomOrder == <<"r1", "r2">>

\* obj[key] = value, and delete obj[key]
Put(obj, key, value) == [k \in DOMAIN obj \cup {key} |-> IF k = key THEN value ELSE obj[k]]

Del(obj, key) == [k \in DOMAIN obj \ {key} |-> obj[k]]

\* whether a string counts as true in a condition
Truthy(string) == string # ""

\* userSocketMap[socketId], the word undefined where there is no entry
UsernameOf(usm, socketId) == IF socketId \in DOMAIN usm THEN usm[socketId] ELSE "undefined"

\* the state of the server that its handlers work on
ServerState == [usm |-> userSocketMap, rum |-> roomUserMap, rooms |-> adapterRooms, socks |-> sockets]

Event(type, to, from, body) == [type |-> type, to |-> to, from |-> from, body |-> body]

\* one event for each socket of targets
EmitAll(type, targets, from, body) ==
  LET to == SelectSeq(SocketOrder, LAMBDA id : id \in targets)
  IN [i \in 1..Len(to) |-> Event(type, to[i], from, body)]

\* io.in(roomId): the connected sockets that joined roomId
InRoom(st, roomId) == st.rooms[roomId] \cap st.socks

\* io.to(socketId): every socket is in the room of its own id
ToSocket(st, socketId) == {socketId} \cap st.socks

\* getAllConnectedClients(roomId), on the state st
getAllConnectedClients(st, roomId) ==
  {[socketId |-> id, username |-> UsernameOf(st.usm, id)] : id \in st.rooms[roomId]}

\* removeUserFromRoom(roomId, username, socketId), on the map rum
removeUserFromRoom(rum, roomId, username) ==
  IF roomId \in DOMAIN rum
  THEN LET users == Del(rum[roomId], username)
       IN IF DOMAIN users = {} THEN Del(rum, roomId) ELSE Put(rum, roomId, users)
  ELSE rum

\* rooms.forEach of the 'disconnecting' listener, from room i of RoomOrder
\* on: the events it sends and the roomUserMap it leaves.  The room of the
\* socket's own id has no other member and no entry in roomUserMap.
RECURSIVE ForEachRoom(_, _, _, _, _)
ForEachRoom(st, socketId, i, rum, out) ==
  IF i > Len(RoomOrder) THEN [rum |-> rum, out |-> out]
  ELSE IF socketId \notin st.rooms[RoomOrder[i]]
  THEN ForEachRoom(st, socketId, i + 1, rum, out)
  ELSE LET username == UsernameOf(st.usm, socketId)
       IN ForEachRoom(st, socketId, i + 1,
                      removeUserFromRoom(rum, RoomOrder[i], username),
                      out \o EmitAll("DISCONNECTED", InRoom(st, RoomOrder[i]) \ {socketId},
                                     socketId, username))

\* What the disconnection of socketId leaves of the state st: the
\* 'disconnecting' listener runs, then the socket leaves its rooms and the
\* server forgets it.
Disconnecting(st, socketId) ==
  LET each == ForEachRoom(st, socketId, 1, st.rum, <<>>)
  IN [st |-> [usm |-> Del(st.usm, socketId),
              rum |-> each.rum,
              rooms |-> [r \in RoomIds |-> st.rooms[r] \ {socketId}],
              socks |-> st.socks \ {socketId}],
      out |-> each.out]

\* the handlers leave the server in state st, having sent out
ServerBecomes(st, out, fault) ==
  /\ userSocketMap' = st.usm
  /\ roomUserMap' = st.rum
  /\ adapterRooms' = st.rooms
  /\ sockets' = st.socks
  /\ emitted' = out
  /\ serverFault' = fault
  /\ UNCHANGED everConnected

\* io.on('connection'): a socket connects and gets an id that is new
OnConnection(socketId) ==
  /\ serverFault = "none"
  /\ socketId \notin everConnected
  /\ everConnected' = everConnected \cup {socketId}
  /\ sockets' = sockets \cup {socketId}
  /\ emitted' = <<>>
  /\ UNCHANGED <<adapterRooms, userSocketMap, roomUserMap, serverFault>>

\* socket.on(ACTIONS.JOIN, ({roomId, username}) => ...).  The disconnect()
\* of the old socket runs its 'disconnecting' listener before it returns;
\* delete roomUserMap[roomId][username] throws a TypeError when that
\* listener has deleted roomUserMap[roomId].
OnJoin(socketId, roomId, username) ==
  /\ serverFault = "none"
  /\ socketId \in sockets
  /\ IF Truthy(UsernameOf(userSocketMap, socketId)) /\ socketId \in DOMAIN userSocketMap
     THEN ServerBecomes(ServerState, <<>>, "none")
     ELSE LET st1 == [ServerState EXCEPT
                        !.rum = IF roomId \in DOMAIN @ THEN @ ELSE Put(@, roomId, NoMap)]
              taken == username \in DOMAIN st1.rum[roomId]
              oldSocketId == st1.rum[roomId][username]
              gone == IF taken /\ oldSocketId \in st1.socks
                      THEN Disconnecting(st1, oldSocketId)
                      ELSE [st |-> st1, out |-> <<>>]
              st2 == IF taken THEN [gone.st EXCEPT !.usm = Del(@, oldSocketId)] ELSE gone.st
          IN IF taken /\ roomId \notin DOMAIN st2.rum
             THEN ServerBecomes(st2, gone.out, "TypeError")
             ELSE LET users == IF roomId \in DOMAIN st2.rum THEN st2.rum[roomId] ELSE NoMap
                      st3 == [st2 EXCEPT
                                !.usm = Put(@, socketId, username),
                                !.rum = Put(@, roomId, Put(Del(users, username), username, socketId)),
                                !.rooms[roomId] = @ \cup {socketId}]
                      joined == [clients |-> getAllConnectedClients(st3, roomId),
                                 username |-> username, socketId |-> socketId]
                  IN ServerBecomes(st3, gone.out \o EmitAll("JOINED", InRoom(st3, roomId),
                                                            socketId, joined),
                                   "none")

\* the relays to a room: socket.in(roomId).emit(type, payload) for a
\* CODE_CHANGE, a LANGUAGE_CHANGE or a TEST_CASES_CHANGE
RelayToRoom(socketId, type, roomId, body) ==
  /\ serverFault = "none"
  /\ socketId \in sockets
  /\ ServerBecomes(ServerState, EmitAll(type, InRoom(ServerState, roomId) \ {socketId},
                                        socketId, body), "none")

\* the relays to one socket: io.to(socketId).emit(type, payload)
RelayToSocket(sender, type, socketId, body) ==
  /\ serverFault = "none"
  /\ sender \in sockets
  /\ ServerBecomes(ServerState, EmitAll(type, ToSocket(ServerState, socketId), sender, body),
                   "none")

OnCodeChange(socketId, roomId, code) == RelayToRoom(socketId, "CODE_CHANGE", roomId, code)

OnSyncCode(sender, socketId, code) == RelayToSocket(sender, "CODE_CHANGE", socketId, code)

OnLanguageChange(socketId, roomId, language) ==
  RelayToRoom(socketId, "LANGUAGE_CHANGE", roomId, language)

OnTestCasesChange(socketId, roomId, testCases) ==
  RelayToRoom(socketId, "TEST_CASES_CHANGE", roomId, testCases)

OnSyncLanguage(sender, socketId, language) ==
  RelayToSocket(sender, "LANGUAGE_CHANGE", socketId, language)

OnSyncTestCases(sender, socketId, testCases) ==
  RelayToSocket(sender, "TEST_CASES_CHANGE", socketId, testCases)

\* socket.on('disconnecting'), when the client goes away
OnDisconnecting(socketId) ==
  /\ serverFault = "none"
  /\ socketId \in sockets
  /\ LET gone == Disconnecting(ServerState, socketId)
     IN ServerBecomes(gone.st, gone.out, "none")

clVars == <<editorPage, codeRef, bootTimer, outbox, inbox, joinSeq>>

SvRest == <<cmpVars, now, sbVars, mlVars, tsVars, psVars, argVars, pnVars, rmVars, fcVars, clVars>>

\* The server with sockets that send what they like.
ServerNext ==
  \/ \E s \in SocketIds : OnConnection(s) /\ UNCHANGED SvRest
  \/ \E s \in SocketIds, r \in RoomIds, u \in Usernames : OnJoin(s, r, u) /\ UNCHANGED SvRest
  \/ \E s \in SocketIds, r \in RoomIds, code \in RoomCodes :
       OnCodeChange(s, r, code) /\ UNCHANGED SvRest
  \/ \E s, t \in SocketIds, code \in RoomCodes : OnSyncCode(s, t, code) /\ UNCHANGED SvRest
  \/ \E s \in SocketIds, r \in RoomIds : OnLanguageChange(s, r, "python") /\ UNCHANGED SvRest
  \/ \E s \in SocketIds, r \in RoomIds : OnTestCasesChange(s, r, <<"a">>) /\ UNCHANGED SvRest
  \/ \E s, t \in SocketIds : OnSyncLanguage(s, t, "python") /\ UNCHANGED SvRest
  \/ \E s, t \in SocketIds : OnSyncTestCases(s, t, <<"a">>) /\ UNCHANGED SvRest
  \/ \E s \in SocketIds : OnDisconnecting(s) /\ UNCHANGED SvRest

ServerInit ==
  CmpIdle /\ now = 0 /\ SbIdle /\ MlIdle /\ TsIdle /\ PsIdle /\ ArgIdle /\ PnIdle /\ RmIdle /\ FcIdle /\ CoIdle

ServerSpec == ServerInit /\ [][ServerNext]_vars

\* ------------------------------------------------------------------------
\* C28, C29, C30: the membership maps, the JOIN handler and the relays
\* ------------------------------------------------------------------------
\* roomUserMap[r][u] = s exactly when s is connected, is registered under the
\* username u and is a member of room r
MapsAgree ==
  \A r \in RoomIds, u \in Usernames, s \in SocketIds :
    (r \in DOMAIN roomUserMap /\ u \in DOMAIN roomUserMap[r] /\ roomUserMap[r][u] = s)
      <=> (s \in sockets /\ s \in DOMAIN userSocketMap /\ userSocketMap[s] = u
           /\ s \in adapterRooms[r])

\* no two connected members of a room are registered under one username
OneSocketPerUsername ==
  \A r \in RoomIds : \A s, t \in adapterRooms[r] \cap sockets :
    UsernameOf(userSocketMap, s) = UsernameOf(userSocketMap, t) => s = t

\* a socket is a member of the room of its first JOIN only
OneRoomPerSocket ==
  \A s \in SocketIds : Cardinality({r \in RoomIds : s \in adapterRooms[r]}) <= 1

\* a room that has an entry has a user and a connected member
NoEntryForEmptyRoom ==
  \A r \in DOMAIN roomUserMap :
    DOMAIN roomUserMap[r] # {} /\ adapterRooms[r] \cap sockets # {}

\* no JOIN carried a username that is falsy
NoFalsyUsername ==
  /\ \A r \in DOMAIN roomUserMap : "" \notin DOMAIN roomUserMap[r]
  /\ \A s \in DOMAIN userSocketMap : userSocketMap[s] # ""

\* The maps do agree as long as every username is truthy (and until the
\* server stops on the fault of C29).
MapsAgreeForTruthyUsernames ==
  []NoFalsyUsername
    => [](MapsAgree /\ OneSocketPerUsername /\ OneRoomPerSocket /\ NoEntryForEmptyRoom)

\* C28: after any sequence of JOINs and disconnections the membership maps
\* agree with each other and with the rooms, a room holds at most one socket
\* per username, a socket that has joined stays in the room of its first
\* JOIN, and a room without users has no entry in roomUserMap.
C28_MembershipMapsAgree ==
  MapsAgree /\ OneSocketPerUsername /\ OneRoomPerSocket /\ NoEntryForEmptyRoom

\* C29: no JOIN makes its handler throw, and the socket of every JOINED
\* that was sent is registered in both maps and is a member of its room.
C29_JoinCompletes ==
  /\ serverFault = "none"
  /\ \A i \in 1..Len(emitted) :
       emitted[i].type = "JOINED" =>
         LET joiner == emitted[i].from
         IN /\ joiner \in DOMAIN userSocketMap
            /\ \E r \in DOMAIN roomUserMap :
                 /\ joiner \in adapterRooms[r]
                 /\ userSocketMap[joiner] \in DOMAIN roomUserMap[r]
                 /\ roomUserMap[r][userSocketMap[joiner]] = joiner

RelayedTypes == {"CODE_CHANGE", "LANGUAGE_CHANGE", "TEST_CASES_CHANGE"}

\* C30: a relayed event reaches only sockets that are members of a room the
\* sender has joined.
C30_RelaysStayInTheRoom ==
  \A i \in 1..Len(emitted) :
    emitted[i].type \in RelayedTypes =>
      \E r \in RoomIds : emitted[i].from \in adapterRooms[r] /\ emitted[i].to \in adapterRooms[r]

\* ------------------------------------------------------------------------
\* EditorPage: the pages of a room and the server
\* ------------------------------------------------------------------------
PageLanguages == {"javascript", "python"}

PageUsernames == {"ann", "bob"}

PageRooms == {"r1"}

\* the sockets of the pages that get opened
PageSockets == {"s1", "s2"}

\* getBoilerplateCode(language), each boilerplate by its first line
getBoilerplateCode(language) ==
  IF language = "javascript" THEN "// JavaScript Code"
  ELSE IF language = "python" THEN "# Python Code"
  ELSE IF language = "java" THEN "import java.util.*;"
  ELSE ""

\* socket.emit(type, payload), with the fields the payloads have
Emit(type, roomId, socketId, username, body) ==
  [type |-> type, roomId |-> roomId, socketId |-> socketId, username |-> username,
   body |-> body]

\* the events of a handler arrive at the sockets they were sent to
Deliver(box, events) ==
  [s \in SocketIds |-> box[s] \o SelectSeq(events, LAMBDA e : e.to = s)]

ServerVars ==
  <<sockets, everConnected, adapterRooms, userSocketMap, roomUserMap, emitted, serverFault>>

\* The EditorPage mounts: the effects load the boilerplate of the language,
\* start init() and set the timer of 500 ms.
PageOpens(s, roomId, username, language) ==
  /\ ~editorPage[s].open
  /\ s \notin everConnected
  /\ editorPage' = [editorPage EXCEPT ![s] = [roomId |-> roomId, username |-> username,
                                              open |-> TRUE, lang |-> language,
                                              mountLang |-> language]]
  /\ codeRef' = [codeRef EXCEPT ![s] = IF getBoilerplateCode(language) # ""
                                        THEN getBoilerplateCode(language) ELSE @]
  /\ bootTimer' = [bootTimer EXCEPT ![s] = TRUE]
  /\ UNCHANGED <<ServerVars, outbox, inbox, joinSeq>>

\* init() after initSocket() has resolved: the socket is connected and the
\* page emits JOIN
SocketReady(s) ==
  /\ editorPage[s].open
  /\ OnConnection(s)
  /\ outbox' = [outbox EXCEPT ![s] = Append(@, Emit("JOIN", editorPage[s].roomId, "",
                                                     editorPage[s].username, ""))]
  /\ UNCHANGED <<editorPage, codeRef, bootTimer, inbox, joinSeq>>

\* the callback of setTimeout(..., 500): CODE_CHANGE with the boilerplate
\* of the mount, when there is a socket by then
BootTimer(s) ==
  /\ bootTimer[s]
  /\ bootTimer' = [bootTimer EXCEPT ![s] = FALSE]
  /\ outbox' =
       [outbox EXCEPT ![s] =
          IF s \in everConnected /\ getBoilerplateCode(editorPage[s].mountLang) # ""
          THEN Append(@, Emit("CODE_CHANGE", editorPage[s].roomId, "", "",
                              getBoilerplateCode(editorPage[s].mountLang)))
          ELSE @]
  /\ UNCHANGED <<ServerVars, editorPage, codeRef, inbox, joinSeq>>

\* handleCodeChange(code), as the editor calls it when the user has typed
TypeCode(s) ==
  /\ editorPage[s].open
  /\ codeRef[s] # "x"
  /\ codeRef' = [codeRef EXCEPT ![s] = "x"]
  /\ UNCHANGED <<ServerVars, editorPage, bootTimer, outbox, inbox, joinSeq>>

\* the next event of socket s that the server has to handle is of this type
NextIs(s, type) == outbox[s] # <<>> /\ Head(outbox[s]).type = type

\* the event is taken from the socket, and what its handler sent arrives
Handled(s) ==
  /\ outbox' = [outbox EXCEPT ![s] = Tail(@)]
  /\ inbox' = Deliver(inbox, emitted')
  /\ UNCHANGED <<editorPage, codeRef, bootTimer>>

ServerJoin(s) ==
  /\ NextIs(s, "JOIN")
  /\ OnJoin(s, Head(outbox[s]).roomId, Head(outbox[s]).username)
  /\ Handled(s)
  /\ joinSeq' = IF serverFault' = "none" THEN Append(joinSeq, s) ELSE joinSeq

ServerCodeChange(s) ==
  /\ NextIs(s, "CODE_CHANGE")
  /\ OnCodeChange(s, Head(outbox[s]).roomId, Head(outbox[s]).body)
  /\ Handled(s)
  /\ UNCHANGED joinSeq

ServerSyncCode(s) ==
  /\ NextIs(s, "SYNC_CODE")
  /\ OnSyncCode(s, Head(outbox[s]).socketId, Head(outbox[s]).body)
  /\ Handled(s)
  /\ UNCHANGED joinSeq

ServerSyncLanguage(s) ==
  /\ NextIs(s, "SYNC_LANGUAGE")
  /\ OnSyncLanguage(s, Head(outbox[s]).socketId, Head(outbox[s]).body)
  /\ Handled(s)
  /\ UNCHANGED joinSeq

\* The listener of JOINED: the page sends its code and the language of its
\* mount to the socket that has joined.  sharedTestCases is the empty list
\* of the mount, so no test cases are sent.
OnJoined(s) ==
  /\ inbox[s] # <<>>
  /\ Head(inbox[s]).type = "JOINED"
  /\ inbox' = [inbox EXCEPT ![s] = Tail(@)]
  /\ LET socketId == Head(inbox[s]).body.socketId
         code == IF codeRef[s] # ""
                 THEN <<Emit("SYNC_CODE", "", socketId, "", codeRef[s])>> ELSE <<>>
         language == IF editorPage[s].mountLang # ""
                     THEN <<Emit("SYNC_LANGUAGE", "", socketId, "", editorPage[s].mountLang)>>
                     ELSE <<>>
     IN outbox' = [outbox EXCEPT ![s] = @ \o code \o language]
  /\ UNCHANGED <<ServerVars, editorPage, codeRef, bootTimer, joinSeq>>

\* The listener of LANGUAGE_CHANGE: setLang(language), and when that changes
\* lang, the effect that loads the boilerplate of the new language
OnLanguageChanged(s) ==
  /\ inbox[s] # <<>>
  /\ Head(inbox[s]).type = "LANGUAGE_CHANGE"
  /\ inbox' = [inbox EXCEPT ![s] = Tail(@)]
  /\ LET language == Head(inbox[s]).body
         changed == language # editorPage[s].lang
     IN /\ editorPage' = [editorPage EXCEPT ![s].lang = language]
        /\ codeRef' = [codeRef EXCEPT ![s] = IF changed /\ getBoilerplateCode(language) # ""
                                              THEN getBoilerplateCode(language) ELSE @]
  /\ UNCHANGED <<ServerVars, bootTimer, outbox, joinSeq>>

\* The events whose listeners change nothing of this model: DISCONNECTED
\* (the list of clients of the page) and CODE_CHANGE (the listener of the
\* editor)
OnOtherEvent(s) ==
  /\ inbox[s] # <<>>
  /\ Head(inbox[s]).type \in {"DISCONNECTED", "CODE_CHANGE"}
  /\ inbox' = [inbox EXCEPT ![s] = Tail(@)]
  /\ UNCHANGED <<ServerVars, editorPage, codeRef, bootTimer, outbox, joinSeq>>

CoRest == <<cmpVars, now, sbVars, mlVars, tsVars, psVars, argVars, pnVars, rmVars, fcVars>>

JoinNext ==
  \/ \E s \in PageSockets, r \in PageRooms, u \in PageUsernames, l \in PageLanguages :
       PageOpens(s, r, u, l) /\ UNCHANGED CoRest
  \/ \E s \in PageSockets : SocketReady(s) /\ UNCHANGED CoRest
  \/ \E s \in PageSockets : BootTimer(s) /\ UNCHANGED CoRest
  \/ \E s \in PageSockets : TypeCode(s) /\ UNCHANGED CoRest
  \/ \E s \in PageSockets : ServerJoin(s) /\ UNCHANGED CoRest
  \/ \E s \in PageSockets : ServerCodeChange(s) /\ UNCHANGED CoRest
  \/ \E s \in PageSockets : ServerSyncCode(s) /\ UNCHANGED CoRest
  \/ \E s \in PageSockets : ServerSyncLanguage(s) /\ UNCHANGED CoRest
  \/ \E s \in PageSockets : OnJoined(s) /\ UNCHANGED CoRest
  \/ \E s \in PageSockets : OnLanguageChanged(s) /\ UNCHANGED CoRest
  \/ \E s \in PageSockets : OnOtherEvent(s) /\ UNCHANGED CoRest

JoinSpec == ServerInit /\ [][JoinNext]_vars

\* socket a was let into its room before socket b
JoinedBefore(a, b) ==
  \E i, j \in 1..Len(joinSeq) : i < j /\ joinSeq[i] = a /\ joinSeq[j] = b

\* C27: when a page joins a room that has members, none of them is sent a
\* CODE_CHANGE by it: no CODE_CHANGE goes from a socket to a socket that was
\* in the room before it.
C27_JoinLeavesMembersAlone ==
  \A i \in 1..Len(emitted) :
    emitted[i].type = "CODE_CHANGE" => ~JoinedBefore(emitted[i].to, emitted[i].from)

\* ------------------------------------------------------------------------
\* The comparator on its own
\* ------------------------------------------------------------------------
CmpInit ==
  /\ cmpActual \in Values
  /\ cmpExpected \in Values
  /\ cmpResult = "pending"
  /\ cmpSwapped = "pending"
  /\ cmpBy = "none"

TestRunnerCompare ==
  /\ cmpBy = "none"
  /\ cmpResult' = BoolStr(compareValues(cmpActual, cmpExpected))
  /\ cmpSwapped' = BoolStr(compareValues(cmpExpected, cmpActual))
  /\ cmpBy' = "TestRunner"
  /\ UNCHANGED <<cmpActual, cmpExpected>>

CodeRunnerCompare ==
  /\ cmpBy = "none"
  /\ cmpResult' = BoolStr(CodeRunner_compareValues(cmpActual, cmpExpected))
  /\ cmpSwapped' = BoolStr(CodeRunner_compareValues(cmpExpected, cmpActual))
  /\ cmpBy' = "CodeRunner"
  /\ UNCHANGED <<cmpActual, cmpExpected>>

CmpNext ==
  \/ TestRunnerCompare /\ UNCHANGED CmpRest
  \/ CodeRunnerCompare /\ UNCHANGED CmpRest

CompareInit == CmpInit /\ now = 0 /\ SbIdle /\ MlIdle /\ TsIdle /\ PsIdle /\ ArgIdle /\ PnIdle /\ RmIdle /\ FcIdle /\ CoIdle

CompareSpec == CompareInit /\ [][CmpNext]_vars

\* ------------------------------------------------------------------------
\* C6, C7: the structural comparator
\* ------------------------------------------------------------------------
IsMapping(v) == v.t = "object"

KeySet(v) == {v.k[i] : i \in 1..Len(v.k)}

\* The cases in which the comparator is specified to answer true.
RECURSIVE SpecifiedEqual(_, _)
SpecifiedEqual(a, b) ==
  \/ StrictEquals(a, b)
  \/ /\ {a.t, b.t} = {"number", "string"}
     /\ ToStr(a) = ToStr(b)
  \/ /\ IsArray(a) /\ IsArray(b)
     /\ Len(a.e) = Len(b.e)
     /\ \A i \in 1..Len(a.e) : SpecifiedEqual(a.e[i], b.e[i])
  \/ /\ IsMapping(a) /\ IsMapping(b)
     /\ KeySet(a) = KeySet(b)
     /\ \A key \in KeySet(a) : SpecifiedEqual(GetProp(a, key), GetProp(b, key))

\* C6: compareValues answers true exactly in the specified cases (identical
\* values, a number and a text with the same rendering, sequences equal
\* element by element, mappings equal key by key) and false in every other
\* case, a sequence against a mapping included.
C6_ExactlySpecifiedCases ==
  cmpBy = "TestRunner" => (cmpResult = "true") = SpecifiedEqual(cmpActual, cmpExpected)

\* C7: the comparator answers true on a value and a structurally equal copy
\* of it, and gives the same answer both ways round when one argument is a
\* number and the other a text.
C7_ReflexiveAndCoercionSymmetric ==
  cmpBy # "none" =>
    /\ (cmpActual = cmpExpected => cmpResult = "true")
    /\ ({cmpActual.t, cmpExpected.t} = {"number", "string"} => cmpResult = cmpSwapped)

C7_Witness ==
  /\ cmpBy = "CodeRunner"
  /\ cmpActual = VObj(<<"a">>, <<VArr(<<VNum(1)>>)>>)
  /\ cmpExpected = cmpActual
  /\ cmpResult = "true"

====
